---- MODULE Spec2Model ----
(***************************************************************************)
(* Model of the document organizer: the fuzzy grouper (utils/grouping.ts), *)
(* the batch run organizeDocuments (workflows/groupDocuments.ts), the      *)
(* per-document processor (utils/processing.ts) and the content cache      *)
(* (utils/cache.ts).                                                       *)
(*                                                                         *)
(* JavaScript strings that the code inspects character by character are    *)
(* sequences of one-character strings; a value that is only compared for   *)
(* equality (a document id, a file name, a document type) is a TLA+        *)
(* string.  JavaScript null/undefined for an optional value v is the empty *)
(* sequence << >>, a present value is << v >>.                             *)
(***************************************************************************)
EXTENDS Integers, Sequences, FiniteSets, TLC

VARIABLES
    \* groupDocuments (utils/grouping.ts)
    documents,      \* the input documents consumed by the loop so far
    grouped,        \* const grouped: GroupedOutput (own properties, creation order)
    ungrouped,      \* const ungrouped: ProcessedDocument[]
    objectCtor,     \* enumerable own properties put on the global function Object
    stats,          \* the stats of the returned GroupingResult, << >> before return
    gpc             \* "loop" | "returned" | "threw"

gvars == <<documents, grouped, ungrouped, objectCtor, stats, gpc>>

VARIABLES
    \* DocumentCache (utils/cache.ts) and the file behind it
    cacheFile,      \* what the cache file holds on disk
    cache,          \* this.cache: << >> before construction, else << CacheData >>
    dirty,          \* this.dirty
    clock,          \* Date.now()
    opLog,          \* the operations made on the DocumentCache, oldest first
    lastGet,        \* << >>, or << the outcome of the latest get >>
    lastCall,       \* << >>, or << the outcome of the latest set, save, clear or stats >>
    sinceSave,      \* the kinds of change made since the last save() or construction
    cacheWrites     \* the number of writeFileSync calls on the cache file

cvars == <<cacheFile, cache, dirty, clock, opLog, lastGet, lastCall, sinceSave,
           cacheWrites>>

VARIABLES
    \* the external capabilities and the callers of processDocument
    classifyCalls,  \* the texts classifyDocument was called with, in order
    extractCalls,   \* the texts extractKeys was called with, in order
    calls,          \* processDocument (utils/processing.ts): the calls made so far
    chunkConfigArg, \* the chunkConfig argument of the latest processDocument call
    ppc             \* "idle" | "threw"

pvars == <<classifyCalls, extractCalls, calls, chunkConfigArg, ppc>>

VARIABLES
    \* organizeDocuments (workflows/groupDocuments.ts)
    readResult,     \* readResult.documents
    processedDocs,  \* const processedDocs: ProcessedDocument[]
    outcomes,       \* per document reached by the loop: "cached" | "processed" | "failed"
    sleeps,         \* the number of cooldown delays awaited
    runResult,      \* << >>, or << the GroupingResult returned >>
    groupingFile,   \* the persisted grouping snapshot, [kind |-> "missing"] when there is none
    snapshotWrites, \* the number of writes of the grouping snapshot
    rpc             \* "start" | "loop" | "sleep" | "returned" | "threw"

rvars == <<readResult, processedDocs, outcomes, sleeps, runResult, groupingFile,
           snapshotWrites, rpc>>

VARIABLES
    \* one call of splitIntoChunks (utils/chunkedProcessor.ts), statement by statement
    splitContent,   \* content: the characters of the document
    splitConfig,    \* config: maxChunkSize and overlapSize
    splitPosition,  \* let position
    splitChunks,    \* const chunks: string[]
    splitWindows,   \* for each chunk pushed, the offsets <<from, to>> it was sliced at
    spc             \* "start" | "loop" | "returned"

svars == <<splitContent, splitConfig, splitPosition, splitChunks, splitWindows, spc>>

VARIABLES
    \* one call of processDocumentChunked (utils/chunkedProcessor.ts), await by await
    chContent,        \* content
    chConfig,         \* config
    chChunks,         \* const chunks, << >> before the split
    chEvents,         \* the external calls issued and settled, in order
    chPending,        \* the external calls in flight
    chClassification, \* const classification: << >> until it is there
    chExtractions,    \* const extractionResults
    chResult,         \* << >>, or << the ChunkedProcessingResult returned >>
    kpc               \* "start" | "all" | "classify" | "extract" | "returned" | "threw"

kvars == <<chContent, chConfig, chChunks, chEvents, chPending, chClassification,
           chExtractions, chResult, kpc>>

VARIABLES
    \* one call of mergeExtractionResults (utils/chunkedProcessor.ts)
    mergeResults,   \* results: the argument
    mergeReturned   \* << >>, or << the ExtractionResult returned >>

mvars == <<mergeResults, mergeReturned>>

VARIABLES
    \* a LeaseQuery session and the callers of the grouping store (utils/leaseQuery.ts)
    session,        \* this.result: << >> before construction, else << the snapshot held >>
    loadedFile,     \* the file as it was when the session last loaded it: << >> or << file >>
    lastSaved,      \* << >>, or << [result, threw] >> of the most recent saveGroupingResult
    lastOp,         \* << >>, or << [op, args, threw, returned] >> of the most recent call
    queryOps        \* the number of calls made so far

qvars == <<session, loadedFile, lastSaved, lastOp, queryOps>>

VARIABLES
    \* one call of readDocsTool.execute (tools/readFiles.ts), await by await
    readFolder,     \* what readdir returned: the matching files, in directory order
    readPending,    \* the files whose readFile has been issued and has not settled
    readDocuments,  \* const documents, in the order of the pushes
    readErrors,     \* const errors, in the order of the pushes
    readReturned,   \* << >>, or << the documents returned >>
    dpc             \* "start" | "reading" | "returned"

dvars == <<readFolder, readPending, readDocuments, readErrors, readReturned, dpc>>

VARIABLES
    \* one run of organizeDocumentsWorkflow (workflows/organizeDocuments.ts)
    state,          \* the workflow state: << >> before read-documents, else
                    \* << [documents, currentIndex, totalDocuments, processedDocs] >>
    resumeData,     \* resumeData of the latest execution of process-document:
                    \* << >> (undefined) or << [continue |-> b] >>
    flowCalls,      \* the places in documents that classifyDocument and
                    \* extractKeys were called for, in call order
    output,         \* << >>, or << the result of group-documents >>
    wpc             \* "read" | "step" | "suspended" | "condition" | "group" |
                    \* "success" | "failed"

wvars == <<state, resumeData, flowCalls, output, wpc>>

vars == <<gvars, cvars, pvars, rvars, svars, kvars, mvars, qvars, dvars, wvars>>

----------------------------------------------------------------------------
(* Generic helpers *)

Range(s) == {s[i] : i \in DOMAIN s}

Min(a, b) == IF a <= b THEN a ELSE b

Max(a, b) == IF a >= b THEN a ELSE b

\* The only element of a set of one element.  { e(x) : x \in {v} } names the
\* value v once, where e uses it several times.
The(S) == CHOOSE x \in S : TRUE

----------------------------------------------------------------------------
(* The strings of the model *)

S_unknown     == <<"u","n","k","n","o","w","n">>
S_empty       == << >>
S_space       == <<" ">>
S_xy1234      == <<"x","y","1","2","3","4">>
S_XY1234      == <<"X","Y","1","2","3","4">>
S_y12345      == <<"y","1","2","3","4","5">>
S_123456      == <<"1","2","3","4","5","6">>
S_12345z      == <<"1","2","3","4","5","z">>
S_constructor == <<"c","o","n","s","t","r","u","c","t","o","r">>
S_12elm       == <<"1","2"," ","e","l","m">>
S_12elms      == <<"1","2"," ","e","l","m","s">>

Digits == {"0","1","2","3","4","5","6","7","8","9"}

DigitValue(c) ==
    CASE c = "0" -> 0 [] c = "1" -> 1 [] c = "2" -> 2 [] c = "3" -> 3
      [] c = "4" -> 4 [] c = "5" -> 5 [] c = "6" -> 6 [] c = "7" -> 7
      [] c = "8" -> 8 [] c = "9" -> 9

\* String.prototype.toLowerCase, on the letters the model's strings use
LowerChar(c) ==
    CASE c = "X" -> "x" [] c = "Y" -> "y" [] OTHER -> c

toLowerCase(s) == [i \in DOMAIN s |-> LowerChar(s[i])]

\* the characters matched by the regular expression \s
WhitespaceChars == {" ", "\t", "\n", "\r"}

----------------------------------------------------------------------------
(* compareTwoStrings of the string-similarity package (Dice coefficient on *)
(* character bigrams), the similarity measure imported by grouping.ts.     *)
(* The result is the fraction << numerator, denominator >>.                *)

StripWhitespace(s) == SelectSeq(s, LAMBDA c : c \notin WhitespaceChars)

BigramsOf(s) == [i \in 1..(Len(s) - 1) |-> <<s[i], s[i + 1]>>]

\* the loop over the bigrams of the second string: a bigram still available
\* in firstBigrams is consumed and counted
RECURSIVE IntersectionSize(_, _, _)
IntersectionSize(firstBigrams, secondBigrams, i) ==
    IF i > Len(secondBigrams) THEN 0
    ELSE LET bigram == secondBigrams[i]
             count  == IF bigram \in DOMAIN firstBigrams
                       THEN firstBigrams[bigram] ELSE 0
         IN  IF count > 0
             THEN 1 + IntersectionSize(
                          [firstBigrams EXCEPT ![bigram] = count - 1],
                          secondBigrams, i + 1)
             ELSE IntersectionSize(firstBigrams, secondBigrams, i + 1)

compareTwoStrings(a, b) ==
    LET first  == StripWhitespace(a)
        second == StripWhitespace(b)
    IN  IF first = second THEN <<1, 1>>
        ELSE IF Len(first) < 2 \/ Len(second) < 2 THEN <<0, 1>>
        ELSE LET fb == BigramsOf(first)
                 firstBigrams ==
                     [g \in Range(fb) |-> Cardinality({i \in DOMAIN fb : fb[i] = g})]
             IN  <<2 * IntersectionSize(firstBigrams, BigramsOf(second), 1),
                   Len(first) + Len(second) - 2>>

\* SIMILARITY_THRESHOLD = 0.8 as the fraction 8/10
SIMILARITY_THRESHOLD_NUM == 8
SIMILARITY_THRESHOLD_DEN == 10

\* score >= SIMILARITY_THRESHOLD
MeetsThreshold(score) ==
    score[1] * SIMILARITY_THRESHOLD_DEN >= SIMILARITY_THRESHOLD_NUM * score[2]

\* the case-insensitive similarity of two strings reaches the threshold
Similar(a, b) == MeetsThreshold(compareTwoStrings(toLowerCase(a), toLowerCase(b)))

----------------------------------------------------------------------------
(* Plain JavaScript objects used as dictionaries.  An object is the        *)
(* sequence of its own properties [key, val] in creation order.            *)

OwnKeys(obj) == {obj[i].key : i \in DOMAIN obj}

HasOwn(obj, k) == k \in OwnKeys(obj)

OwnValue(obj, k) == obj[CHOOSE i \in DOMAIN obj : obj[i].key = k].val

\* a canonical array index: "0", or digits without a leading zero (up to nine
\* digits every such value is below 2^32 - 1)
IsArrayIndex(s) ==
    /\ Len(s) >= 1
    /\ Len(s) <= 9
    /\ \A i \in DOMAIN s : s[i] \in Digits
    /\ (Len(s) > 1 => s[1] # "0")

RECURSIVE NumericValue(_)
NumericValue(s) ==
    IF Len(s) = 0 THEN 0
    ELSE 10 * NumericValue(SubSeq(s, 1, Len(s) - 1)) + DigitValue(s[Len(s)])

RECURSIVE SortAscending(_)
SortAscending(S) ==
    IF S = {} THEN << >>
    ELSE LET m == CHOOSE x \in S : \A y \in S : NumericValue(x) <= NumericValue(y)
         IN  <<m>> \o SortAscending(S \ {m})

\* the keys of obj in creation order
CreationOrder(obj) == [i \in DOMAIN obj |-> obj[i].key]

\* Object.keys(obj): array-index keys in ascending numeric order, then the
\* other string keys in creation order
ObjectKeys(obj) ==
    SortAscending({k \in OwnKeys(obj) : IsArrayIndex(k)})
        \o SelectSeq(CreationOrder(obj), LAMBDA k : ~IsArrayIndex(k))

\* property names every object inherits from Object.prototype (and a function
\* from Function.prototype): here the one such name among the model's strings
InheritedNames == {S_constructor}

\* obj[k] is truthy: an own property (always an object here) or an inherited one
Truthy(obj, k) == HasOwn(obj, k) \/ k \in InheritedNames

\* obj[k] = val, for an own key or a new one
PutOwn(obj, k, val) ==
    IF HasOwn(obj, k)
    THEN [i \in DOMAIN obj |-> IF obj[i].key = k THEN [key |-> k, val |-> val] ELSE obj[i]]
    ELSE Append(obj, [key |-> k, val |-> val])

----------------------------------------------------------------------------
(* utils/grouping.ts *)

\* findFuzzyMatch: << candidate >> for the first candidate that is similar
\* enough, << >> for null
RECURSIVE findFuzzyMatchFrom(_, _, _)
findFuzzyMatchFrom(needle, haystack, i) ==
    IF i > Len(haystack) THEN << >>
    ELSE IF Similar(needle, haystack[i]) THEN <<haystack[i]>>
    ELSE findFuzzyMatchFrom(needle, haystack, i + 1)

\* findFuzzyMatch without the threshold test: the first candidate wins
findFuzzyMatch_AnyCandidate(needle, haystack) ==
    IF haystack = << >> THEN << >> ELSE <<haystack[1]>>

findFuzzyMatch(needle, haystack) == findFuzzyMatchFrom(needle, haystack, 1)

\* findFuzzyMatch(needle, haystack) || needle : null and the empty string are falsy
MatchOrSelf(needle, haystack) ==
    LET m == findFuzzyMatch(needle, haystack)
    IN  IF m = << >> \/ m[1] = S_empty THEN needle ELSE m[1]

EmptyLeaseFile ==
    [baseLease |-> << >>, amendments |-> << >>, commencements |-> << >>,
     deliveries |-> << >>, others |-> << >>]

EmptyGroup == [leaseFile |-> EmptyLeaseFile, documents |-> << >>]

\* the switch with a lease case that always takes over baseLease
Categorize_LastLeaseWins(leaseFile, doc) ==
    LET docType == doc.classification.documentType
    IN  CASE docType = "lease" ->
               [leaseFile EXCEPT !.baseLease = <<doc.id>>,
                                 !.others = @ \o leaseFile.baseLease]
          [] docType = "amendment" ->
               [leaseFile EXCEPT !.amendments = Append(@, doc.id)]
          [] docType = "rent_commencement" ->
               [leaseFile EXCEPT !.commencements = Append(@, doc.id)]
          [] docType = "delivery_letter" ->
               [leaseFile EXCEPT !.deliveries = Append(@, doc.id)]
          [] OTHER ->
               [leaseFile EXCEPT !.others = Append(@, doc.id)]

\* the switch on doc.classification.documentType
Categorize(leaseFile, doc) ==
    LET docType == doc.classification.documentType
    IN  CASE docType = "lease" ->
               IF leaseFile.baseLease = << >>
               THEN [leaseFile EXCEPT !.baseLease = <<doc.id>>]
               ELSE [leaseFile EXCEPT !.others = Append(@, doc.id)]
          [] docType = "amendment" ->
               [leaseFile EXCEPT !.amendments = Append(@, doc.id)]
          [] docType = "rent_commencement" ->
               [leaseFile EXCEPT !.commencements = Append(@, doc.id)]
          [] docType = "delivery_letter" ->
               [leaseFile EXCEPT !.deliveries = Append(@, doc.id)]
          [] OTHER ->
               [leaseFile EXCEPT !.others = Append(@, doc.id)]

\* group.documents.push(doc) and the categorisation, on one group
AddToGroup(group, doc) ==
    [leaseFile |-> Categorize(group.leaseFile, doc),
     documents |-> Append(group.documents, doc)]

\* a value stored by groupDocuments: a group with its documents (the function
\* Object can also hold lease files stored by the workflow's grouping step)
IsGroup(val) == "documents" \in DOMAIN val

\* The address level of one loop iteration on the object `addresses`
\* (grouped[matchedLessor]): [threw, addresses].  When matchedAddress names an
\* inherited property, group is that inherited function, group.documents is
\* undefined and the push throws a TypeError; so it is when group is a lease
\* file that the workflow's grouping step stored on the function Object.
PlaceUnderAddress(addresses, doc) ==
    LET address           == doc.extraction.address
        existingAddresses == ObjectKeys(addresses)
        matchedAddress    == MatchOrSelf(address, existingAddresses)
        created           == IF Truthy(addresses, matchedAddress) THEN addresses
                             ELSE PutOwn(addresses, matchedAddress, EmptyGroup)
    IN  IF ~HasOwn(created, matchedAddress)
        THEN [threw |-> TRUE, addresses |-> created]
        ELSE IF ~IsGroup(OwnValue(created, matchedAddress))
        THEN [threw |-> TRUE, addresses |-> created]
        ELSE [threw |-> FALSE,
              addresses |-> PutOwn(created, matchedAddress,
                                   AddToGroup(OwnValue(created, matchedAddress), doc))]

\* the test with the address forgotten
SkipsGrouping_LessorOnly(doc) == doc.extraction.lessor = S_unknown

\* lessor === 'unknown' || address === 'unknown'
SkipsGrouping(doc) ==
    doc.extraction.lessor = S_unknown \/ doc.extraction.address = S_unknown

\* One iteration of the for loop of groupDocuments on the state
\* st = [grouped, ungrouped, objectCtor, threw].
\* When matchedLessor names an inherited property and no own one,
\* grouped[matchedLessor] is the global function Object: the address level
\* then works on the properties of that function, outside grouped.
GroupStep(st, doc) ==
    LET lessor  == doc.extraction.lessor
    IN  IF SkipsGrouping(doc)
        THEN [st EXCEPT !.ungrouped = Append(@, doc)]
        ELSE
          LET existingLessors == ObjectKeys(st.grouped)
              matchedLessor   == MatchOrSelf(lessor, existingLessors)
              created         == IF Truthy(st.grouped, matchedLessor) THEN st.grouped
                                 ELSE PutOwn(st.grouped, matchedLessor, << >>)
          IN  IF HasOwn(created, matchedLessor)
              THEN LET r == PlaceUnderAddress(OwnValue(created, matchedLessor), doc)
                   IN  [st EXCEPT !.grouped = PutOwn(created, matchedLessor, r.addresses),
                                  !.threw = r.threw]
              ELSE LET r == PlaceUnderAddress(st.objectCtor, doc)
                   IN  [st EXCEPT !.objectCtor = r.addresses, !.threw = r.threw]

\* the stats block of groupDocuments
RECURSIVE SumDocuments(_, _)
SumDocuments(addresses, keys) ==
    IF keys = << >> THEN 0
    ELSE Len(OwnValue(addresses, Head(keys)).documents)
           + SumDocuments(addresses, Tail(keys))

RECURSIVE CountGrouped(_, _)
CountGrouped(g, keys) ==
    IF keys = << >> THEN [groupedCount |-> 0, addressCount |-> 0]
    ELSE LET addresses == ObjectKeys(OwnValue(g, Head(keys)))
             rest      == CountGrouped(g, Tail(keys))
         IN  [groupedCount |-> SumDocuments(OwnValue(g, Head(keys)), addresses)
                                 + rest.groupedCount,
              addressCount |-> Len(addresses) + rest.addressCount]

CalculateStats(docs, g, ung) ==
    LET c == CountGrouped(g, ObjectKeys(g))
    IN  [totalDocuments     |-> Len(docs),
         groupedDocuments   |-> c.groupedCount,
         ungroupedDocuments |-> Len(ung),
         lessors            |-> Len(ObjectKeys(g)),
         addresses          |-> c.addressCount]

----------------------------------------------------------------------------
(* The inputs of groupDocuments *)

MaxDocs == 3

DocumentTypes == {"lease", "amendment", "rent_commencement", "delivery_letter", "other"}

\* the files of the folder, in the order readDocsTool sorts them; the id is
\* basename(filename, ext)
Files ==
    << [id |-> "a", filename |-> "a.md"],
       [id |-> "a", filename |-> "a.txt"],
       [id |-> "b", filename |-> "b.txt"],
       [id |-> "c", filename |-> "c.txt"] >>

Lessors == {S_xy1234, S_XY1234, S_y12345, S_123456, S_12345z, S_empty, S_space,
            S_constructor, S_unknown}

Addresses == {S_12elm, S_12elms, S_empty, S_constructor, S_unknown}

\* what classification and extraction can say about one document: every
\* type at one (lessor, address), every lessor and every address
Findings ==
    {[documentType |-> t, lessor |-> S_xy1234, address |-> S_12elm] : t \in DocumentTypes}
    \cup {[documentType |-> "lease", lessor |-> l, address |-> S_12elm] : l \in Lessors}
    \cup {[documentType |-> "lease", lessor |-> S_y12345, address |-> a] : a \in Addresses}

MakeDoc(file, f) ==
    [id |-> file.id, filename |-> file.filename,
     classification |-> [documentType |-> f.documentType],
     extraction |-> [lessor |-> f.lessor, address |-> f.address]]

\* index in Files of the last consumed document (0 when none)
LastFileIndex ==
    IF documents = << >> THEN 0
    ELSE CHOOSE i \in DOMAIN Files : Files[i].filename = documents[Len(documents)].filename

----------------------------------------------------------------------------
(* groupDocuments as a state machine: one action per loop iteration *)

GroupInit ==
    /\ documents = << >>
    /\ grouped = << >>
    /\ ungrouped = << >>
    /\ objectCtor = << >>
    /\ stats = << >>
    /\ gpc = "loop"

\* the variables of the other components, at rest
CacheIdle ==
    /\ cacheFile = [kind |-> "missing"]
    /\ cache = << >>
    /\ dirty = FALSE
    /\ clock = 1
    /\ opLog = << >>
    /\ lastGet = << >>
    /\ lastCall = << >>
    /\ sinceSave = {}
    /\ cacheWrites = 0

ProcIdle ==
    /\ classifyCalls = << >>
    /\ extractCalls = << >>
    /\ calls = << >>
    /\ chunkConfigArg = << >>
    /\ ppc = "idle"

RunIdle ==
    /\ readResult = << >>
    /\ processedDocs = << >>
    /\ outcomes = << >>
    /\ sleeps = 0
    /\ runResult = << >>
    /\ groupingFile = [kind |-> "missing"]
    /\ snapshotWrites = 0
    /\ rpc = "start"

SplitIdle ==
    /\ splitContent = << >>
    /\ splitConfig = << >>
    /\ splitPosition = 0
    /\ splitChunks = << >>
    /\ splitWindows = << >>
    /\ spc = "start"

ChunkedIdle ==
    /\ chContent = << >>
    /\ chConfig = << >>
    /\ chChunks = << >>
    /\ chEvents = << >>
    /\ chPending = {}
    /\ chClassification = << >>
    /\ chExtractions = << >>
    /\ chResult = << >>
    /\ kpc = "start"

MergeIdle ==
    /\ mergeResults = << >>
    /\ mergeReturned = << >>

QueryIdle ==
    /\ session = << >>
    /\ loadedFile = << >>
    /\ lastSaved = << >>
    /\ lastOp = << >>
    /\ queryOps = 0

ReadIdle ==
    /\ readFolder = << >>
    /\ readPending = {}
    /\ readDocuments = << >>
    /\ readErrors = << >>
    /\ readReturned = << >>
    /\ dpc = "start"

FlowIdle ==
    /\ state = << >>
    /\ resumeData = << >>
    /\ flowCalls = << >>
    /\ output = << >>
    /\ wpc = "read"

\* one iteration of `for (const doc of documents)`
GroupLoop ==
    /\ gpc = "loop"
    /\ Len(documents) < MaxDocs
    /\ \E i \in DOMAIN Files, f \in Findings :
         /\ i > LastFileIndex
         /\ LET doc == MakeDoc(Files[i], f)
                st  == GroupStep([grouped |-> grouped, ungrouped |-> ungrouped,
                                  objectCtor |-> objectCtor, threw |-> FALSE], doc)
            IN  /\ documents' = Append(documents, doc)
                /\ grouped' = st.grouped
                /\ ungrouped' = st.ungrouped
                /\ objectCtor' = st.objectCtor
                /\ gpc' = IF st.threw THEN "threw" ELSE "loop"
    /\ UNCHANGED <<stats, cvars, pvars, rvars, svars, kvars, mvars, qvars, dvars, wvars>>

\* the end of the input: the stats are calculated and the result returned
GroupReturn ==
    /\ gpc = "loop"
    /\ stats' = <<CalculateStats(documents, grouped, ungrouped)>>
    /\ gpc' = "returned"
    /\ UNCHANGED <<documents, grouped, ungrouped, objectCtor, cvars, pvars, rvars, svars, kvars, mvars, qvars, dvars, wvars>>

GroupNext == GroupLoop \/ GroupReturn

InitGroup == GroupInit /\ CacheIdle /\ ProcIdle /\ RunIdle /\ SplitIdle /\ ChunkedIdle /\ MergeIdle /\ QueryIdle /\ ReadIdle /\ FlowIdle

SpecGroup == InitGroup /\ [][GroupNext]_vars

----------------------------------------------------------------------------
(* Views of the hierarchy used by the properties *)

\* the groups (bundle + document list) stored under the own lessor key l
GroupsUnder(l) ==
    LET addresses == OwnValue(grouped, l)
    IN  {addresses[i].val : i \in DOMAIN addresses}

\* the documents that ended up under the top-level key l
DocsUnder(l) == UNION {Range(g.documents) : g \in GroupsUnder(l)}

\* every group of the hierarchy, and those put on the function Object
AllGroups == UNION {GroupsUnder(l) : l \in OwnKeys(grouped)}

StrayGroups == {objectCtor[i].val : i \in DOMAIN objectCtor}

\* the top-level keys a document is under (none, or one)
LessorKeysOf(d) == {l \in OwnKeys(grouped) : d \in DocsUnder(l)}

Known(d) == d.extraction.lessor # S_unknown /\ d.extraction.address # S_unknown

IsLease(d) == d.classification.documentType = "lease"

\* a key string without a special meaning as a JavaScript property name
OrdinaryKey(s) ==
    /\ ~IsArrayIndex(s)
    /\ StripWhitespace(s) # << >>
    /\ s \notin InheritedNames

OrdinaryBatch ==
    \A d \in Range(documents) :
        OrdinaryKey(d.extraction.lessor) /\ OrdinaryKey(d.extraction.address)

\* the ids held by a bundle, slot after slot
SlotIds(lf) ==
    lf.baseLease \o lf.amendments \o lf.commencements \o lf.deliveries \o lf.others

Occurrences(seq, x) == Cardinality({i \in DOMAIN seq : seq[i] = x})

----------------------------------------------------------------------------
(* C1 *)

\* C1 (as claimed, on batches of ordinary names): two documents with known
\* lessor and address end up under the same top-level key when their lessors
\* have similarity >= 0.8, and under distinct keys when it is < 0.8.
C1_SimilarityDecidesKey ==
    (gpc = "returned" /\ OrdinaryBatch) =>
        \A d1, d2 \in Range(documents) :
            (Known(d1) /\ Known(d2) /\ d1 # d2) =>
                IF Similar(d1.extraction.lessor, d2.extraction.lessor)
                THEN LessorKeysOf(d1) = LessorKeysOf(d2)
                ELSE LessorKeysOf(d1) # LessorKeysOf(d2)

\* C1 (amended): a document ends up under a top-level key only if the
\* case-insensitive similarity of its lessor to that key is >= 0.8; the
\* similarity of two documents to each other decides nothing.
C1_DocSimilarToItsKey ==
    \A l \in OwnKeys(grouped) :
        \A d \in DocsUnder(l) : Similar(d.extraction.lessor, l)

\* two documents whose lessors are not similar share a top-level key
C1_Witness ==
    /\ gpc = "returned"
    /\ OrdinaryBatch
    /\ \E d1, d2 \in Range(documents) :
         /\ ~Similar(d1.extraction.lessor, d2.extraction.lessor)
         /\ LessorKeysOf(d1) # {}
         /\ LessorKeysOf(d1) = LessorKeysOf(d2)

----------------------------------------------------------------------------
(* C2 *)

\* C2: in a result each bundle holds at most one id in baseLease, and an id
\* placed in a bundle occurs exactly once over all slots of all bundles.
C2_IdInExactlyOneSlot ==
    gpc = "returned" =>
        /\ \A g \in AllGroups : Len(g.leaseFile.baseLease) <= 1
        /\ \A g \in AllGroups :
             \A x \in Range(SlotIds(g.leaseFile)) :
                 /\ Occurrences(SlotIds(g.leaseFile), x) = 1
                 /\ \A h \in AllGroups \ {g} : x \notin Range(SlotIds(h.leaseFile))

----------------------------------------------------------------------------
(* C3 *)

\* the position in creation order of the first key of obj similar to s (0: none)
FirstSimilar(obj, s) ==
    IF \E i \in DOMAIN obj : Similar(s, obj[i].key)
    THEN CHOOSE i \in DOMAIN obj :
            /\ Similar(s, obj[i].key)
            /\ \A j \in 1..(i - 1) : ~Similar(s, obj[j].key)
    ELSE 0

\* the key the match-or-create rule designates for s among the keys of before
DesignatedKey(before, s) ==
    IF FirstSimilar(before, s) # 0 THEN before[FirstSimilar(before, s)].key ELSE s

KeysFollowRule(before, after, s) ==
    IF FirstSimilar(before, s) # 0
    THEN CreationOrder(after) = CreationOrder(before)
    ELSE CreationOrder(after) = Append(CreationOrder(before), s)

\* C3: each document with known lessor and address is placed under the
\* earliest-created lessor key with similarity >= 0.8 to its lessor, or under
\* a new key that is its literal lessor, and then likewise for its address
\* among the address keys of that lessor.
C3_EarliestCreatedKey ==
    [][ (gpc = "loop" /\ Len(documents') = Len(documents) + 1
            /\ Known(documents'[Len(documents')]))
        => LET d  == documents'[Len(documents')]
               l  == DesignatedKey(grouped, d.extraction.lessor)
               before == IF HasOwn(grouped, l) THEN OwnValue(grouped, l) ELSE << >>
               a  == DesignatedKey(before, d.extraction.address)
           IN  /\ KeysFollowRule(grouped, grouped', d.extraction.lessor)
               /\ HasOwn(grouped', l)
               /\ KeysFollowRule(before, OwnValue(grouped', l), d.extraction.address)
               /\ HasOwn(OwnValue(grouped', l), a)
               /\ OwnValue(OwnValue(grouped', l), a).documents
                    = Append(IF HasOwn(before, a)
                             THEN OwnValue(before, a).documents ELSE << >>, d)
      ]_vars

----------------------------------------------------------------------------
(* C4 *)

\* the documents of the group g in input order
PlacedInOrder(g) == SelectSeq(documents, LAMBDA d : d \in Range(g.documents))

LeasesOf(g) == SelectSeq(PlacedInOrder(g), IsLease)

\* C4: in every bundle baseLease is the id of the first lease-typed document
\* placed in it, in input order (null if none), and the later lease-typed
\* documents are in others, in input order, with the untyped ones.
C4_BaseLeaseIsFirstLease ==
    \A g \in AllGroups \cup StrayGroups :
        LET leases == LeasesOf(g)
        IN  /\ g.leaseFile.baseLease
                 = (IF leases = << >> THEN << >> ELSE <<leases[1].id>>)
            /\ g.leaseFile.others
                 = [i \in 1..Len(SelectSeq(PlacedInOrder(g),
                           LAMBDA d : \/ (IsLease(d) /\ d # leases[1])
                                      \/ d.classification.documentType = "other")) |->
                       SelectSeq(PlacedInOrder(g),
                           LAMBDA d : \/ (IsLease(d) /\ d # leases[1])
                                      \/ d.classification.documentType = "other")[i].id]

\* a returned bundle with two lease-typed documents of different ids: the
\* first is baseLease, the second is in others
C4_Witness ==
    /\ gpc = "returned"
    /\ \E g \in AllGroups :
         /\ Len(LeasesOf(g)) >= 2
         /\ LeasesOf(g)[1].id # LeasesOf(g)[2].id
         /\ g.leaseFile.baseLease = <<LeasesOf(g)[1].id>>
         /\ LeasesOf(g)[2].id \in Range(g.leaseFile.others)

----------------------------------------------------------------------------
(* C5 *)

\* C5: the stats of every result satisfy
\* groupedDocuments + ungroupedDocuments = totalDocuments = input length.
C5_StatsAddUp ==
    gpc = "returned" =>
        /\ stats[1].groupedDocuments + stats[1].ungroupedDocuments
             = stats[1].totalDocuments
        /\ stats[1].totalDocuments = Len(documents)

----------------------------------------------------------------------------
(* C6 *)

\* C6: a document whose lessor or address is "unknown" is appended to the
\* ungrouped list, in input order, is in no group and adds no bundle entry
\* and no key, even when its other field is known.
C6_UnknownGoesToUngrouped ==
    /\ [](/\ ungrouped = SelectSeq(documents, LAMBDA d : ~Known(d))
          /\ \A g \in AllGroups \cup StrayGroups :
               /\ \A d \in Range(g.documents) : Known(d)
               /\ Len(SlotIds(g.leaseFile)) = Len(g.documents))
    /\ [][ (Len(documents') = Len(documents) + 1
              /\ ~Known(documents'[Len(documents')]))
           => /\ ungrouped' = Append(ungrouped, documents'[Len(documents')])
              /\ grouped' = grouped
              /\ objectCtor' = objectCtor
              /\ gpc' = "loop"
         ]_vars

\* a result in which a document with a known lessor and an unknown address is
\* ungrouped next to a non-empty hierarchy
C6_Witness ==
    /\ gpc = "returned"
    /\ grouped # << >>
    /\ \E i \in DOMAIN ungrouped :
         /\ ungrouped[i].extraction.lessor # S_unknown
         /\ ungrouped[i].extraction.address = S_unknown

----------------------------------------------------------------------------
(* utils/cache.ts: the content cache                                        *)
(*                                                                          *)
(* A document content is the record [name, length]: two contents are the    *)
(* same string exactly when the records are equal.  CacheData is the record *)
(* [version, entries]; entries is << m >> for an object m mapping digests   *)
(* to cached results, and << >> when the property is undefined.             *)

CACHE_VERSION == 1

\* SHA-256 taken as collision-free: the digest determines the content
hashContent(content) == <<"sha256", content>>

\* { version: CACHE_VERSION, entries: {} }
FreshCache == [version |-> CACHE_VERSION, entries |-> << << >> >>]

\* What the cache file can hold.  kind "object" is a JSON text that parses to
\* an object: version is << >> (no such property) or << n >>, entries likewise.
IsObjectFile(file) == file.kind = "object"

\* loadCache without the version check
loadCache_AnyVersion(file) ==
    IF IsObjectFile(file)
    THEN [version |-> CACHE_VERSION, entries |-> file.entries]
    ELSE FreshCache

loadCache(file) ==
    CASE file.kind = "missing"    -> FreshCache     \* existsSync is false
      [] file.kind = "unreadable" -> FreshCache     \* readFileSync throws, caught
      [] file.kind = "unparsable" -> FreshCache     \* JSON.parse throws, caught
      [] file.kind = "null"       -> FreshCache     \* cache.version throws, caught
      [] IsObjectFile(file) ->
            IF file.version # <<CACHE_VERSION>>
            THEN FreshCache
            ELSE [version |-> CACHE_VERSION, entries |-> file.entries]

\* writeFileSync(cacheFile, JSON.stringify(cache)): an undefined entries
\* property is left out of the text; a write that throws is caught
saveCache(c, file, writeOk) ==
    IF writeOk
    THEN [kind |-> "object", version |-> <<c.version>>, entries |-> c.entries]
    ELSE file

\* getCachedResult that never finds anything
getCachedResult_AlwaysNull(content, c) ==
    [threw |-> c.entries = << >>, value |-> << >>]

\* cache.entries[hash] || null; a TypeError when entries is undefined
getCachedResult(content, c) ==
    IF c.entries = << >>
    THEN [threw |-> TRUE, value |-> << >>]
    ELSE LET m == c.entries[1]
             hash == hashContent(content)
         IN  [threw |-> FALSE,
              value |-> IF hash \in DOMAIN m THEN <<m[hash]>> ELSE << >>]

\* cache.entries[hash] = result; a TypeError when entries is undefined
setCachedResult(content, result, c) ==
    IF c.entries = << >>
    THEN [threw |-> TRUE, cache |-> c]
    ELSE LET m == c.entries[1]
             hash == hashContent(content)
         IN  [threw |-> FALSE,
              cache |-> [c EXCEPT !.entries =
                           << [h \in DOMAIN m \cup {hash} |->
                                 IF h = hash THEN result ELSE m[h]] >>]]

\* DocumentCache.stats: Object.keys(this.cache.entries).length; a TypeError
\* when entries is undefined
DocumentCacheStats(c) ==
    IF c.entries = << >>
    THEN [threw |-> TRUE, entries |-> 0]
    ELSE [threw |-> FALSE, entries |-> Cardinality(DOMAIN c.entries[1])]

\* DocumentCache.set on the fields <<cache, dirty>> at time now
DocumentCacheSet(c, d, content, classification, extraction, now) ==
    LET r == setCachedResult(content,
                 [classification |-> classification, extraction |-> extraction,
                  timestamp |-> now], c)
    IN  [threw |-> r.threw, cache |-> r.cache, dirty |-> (IF r.threw THEN d ELSE TRUE)]

----------------------------------------------------------------------------
(* The inputs of the cache and of the processing *)

S_tenant == <<"t", "e", "n", "a", "n", "t">>

TextA == [name |-> "A", length |-> 10]
TextB == [name |-> "B", length |-> 10]
TextL == [name |-> "L", length |-> 100001]

\* what classifyDocument can return (confidence and reasoning are never read)
Classifications == {[documentType |-> "lease"], [documentType |-> "amendment"]}

ExtractionFull ==
    [lessor |-> S_xy1234, address |-> S_12elm, tenant |-> S_tenant,
     baseReference |-> << >>]

ExtractionLessorOnly ==
    [lessor |-> S_y12345, address |-> S_unknown, tenant |-> S_unknown,
     baseReference |-> << >>]

ExtractionNone ==
    [lessor |-> S_unknown, address |-> S_unknown, tenant |-> S_unknown,
     baseReference |-> << >>]

\* what extractKeys can return
Extractions == {ExtractionFull, ExtractionNone}

\* an entries object written by an earlier run: TextA is cached
StoredEntries ==
    [h \in {hashContent(TextA)} |->
        [classification |-> [documentType |-> "amendment"],
         extraction |-> ExtractionLessorOnly, timestamp |-> 0]]

FileMissing == [kind |-> "missing"]

\* {"version": 1, "entries": {...}}
FileValid == [kind |-> "object", version |-> <<CACHE_VERSION>>, entries |-> <<StoredEntries>>]

\* {"version": 1}
FileNoEntries == [kind |-> "object", version |-> <<CACHE_VERSION>>, entries |-> << >>]

\* {"version": 2, "entries": {...}} and {"entries": {...}}
FileOtherVersion == [kind |-> "object", version |-> <<CACHE_VERSION + 1>>, entries |-> <<StoredEntries>>]

FileNoVersion == [kind |-> "object", version |-> << >>, entries |-> <<StoredEntries>>]

CacheFiles ==
    {FileMissing, [kind |-> "unreadable"], [kind |-> "unparsable"], [kind |-> "null"],
     FileValid, FileNoEntries, FileOtherVersion, FileNoVersion}

----------------------------------------------------------------------------
(* DocumentCache as a state machine: one action per method *)

MaxOps == 3

\* the classification and extraction arguments of set
SetArguments ==
    {[classification |-> [documentType |-> "lease"], extraction |-> ExtractionFull],
     [classification |-> [documentType |-> "amendment"], extraction |-> ExtractionNone]}

\* new DocumentCache(cacheFile)
CacheInit ==
    /\ cacheFile \in CacheFiles
    /\ cache = <<loadCache(cacheFile)>>
    /\ dirty = FALSE
    /\ clock = 1
    /\ opLog = <<[op |-> "new", file |-> cacheFile]>>
    /\ lastGet = << >>
    /\ lastCall = << >>
    /\ sinceSave = {}
    /\ cacheWrites = 0

\* get(content)
CacheGet ==
    /\ \E content \in {TextA, TextB} :
         LET r == getCachedResult(content, cache[1])
         IN  lastGet' = <<[content |-> content, threw |-> r.threw, value |-> r.value]>>
    /\ lastCall' = << >>
    /\ UNCHANGED <<cacheFile, cache, dirty, clock, opLog, sinceSave, cacheWrites,
                   gvars, pvars, rvars, svars, kvars, mvars, qvars, dvars, wvars>>

\* set(content, classification, extraction)
CacheSet ==
    /\ clock <= MaxOps
    /\ \E content \in {TextA, TextB}, res \in SetArguments :
         LET cl == res.classification
             ex == res.extraction
             r == DocumentCacheSet(cache[1], dirty, content, cl, ex, clock)
         IN  /\ cache' = <<r.cache>>
             /\ dirty' = r.dirty
             /\ opLog' = IF r.threw THEN opLog
                         ELSE Append(opLog, [op |-> "set", content |-> content,
                                             classification |-> cl, extraction |-> ex])
             /\ lastCall' = <<[op |-> "set", threw |-> r.threw]>>
             /\ sinceSave' = IF r.threw THEN sinceSave ELSE sinceSave \cup {"set"}
    /\ clock' = clock + 1
    /\ lastGet' = << >>
    /\ UNCHANGED <<cacheFile, cacheWrites, gvars, pvars, rvars, svars, kvars, mvars, qvars, dvars, wvars>>

\* save() that writes whether or not the cache is dirty
Save_Always ==
    /\ \E writeOk \in BOOLEAN : cacheFile' = saveCache(cache[1], cacheFile, writeOk)
    /\ cacheWrites' = cacheWrites + 1
    /\ dirty' = FALSE
    /\ sinceSave' = {}
    /\ lastGet' = << >>
    /\ lastCall' = <<[op |-> "save", threw |-> FALSE]>>
    /\ UNCHANGED <<cache, clock, opLog>>

\* save() on the cache fields; writeOk: writeFileSync does not throw
Save ==
    /\ \E writeOk \in BOOLEAN :
         cacheFile' = IF dirty THEN saveCache(cache[1], cacheFile, writeOk) ELSE cacheFile
    /\ cacheWrites' = IF dirty THEN cacheWrites + 1 ELSE cacheWrites
    /\ dirty' = FALSE
    /\ sinceSave' = {}
    /\ lastGet' = << >>
    /\ lastCall' = <<[op |-> "save", threw |-> FALSE]>>
    /\ UNCHANGED <<cache, clock, opLog>>

\* save()
CacheSave == Save /\ UNCHANGED <<gvars, pvars, rvars, svars, kvars, mvars, qvars, dvars, wvars>>

\* clear()
CacheClear ==
    /\ clock <= MaxOps
    /\ cache' = <<FreshCache>>
    /\ dirty' = TRUE
    /\ clock' = clock + 1
    /\ opLog' = Append(opLog, [op |-> "clear"])
    /\ lastGet' = << >>
    /\ lastCall' = <<[op |-> "clear", threw |-> FALSE]>>
    /\ sinceSave' = sinceSave \cup {"clear"}
    /\ UNCHANGED <<cacheFile, cacheWrites, gvars, pvars, rvars, svars, kvars, mvars, qvars, dvars, wvars>>

\* stats()
CacheStats ==
    /\ lastCall' = <<[op |-> "stats", threw |-> DocumentCacheStats(cache[1]).threw,
                      entries |-> DocumentCacheStats(cache[1]).entries]>>
    /\ lastGet' = << >>
    /\ UNCHANGED <<cacheFile, cache, dirty, clock, opLog, sinceSave, cacheWrites,
                   gvars, pvars, rvars, svars, kvars, mvars, qvars, dvars, wvars>>

CacheNext == CacheGet \/ CacheSet \/ CacheSave \/ CacheClear \/ CacheStats

InitCache == CacheInit /\ GroupInit /\ ProcIdle /\ RunIdle /\ SplitIdle /\ ChunkedIdle /\ MergeIdle /\ QueryIdle /\ ReadIdle /\ FlowIdle

SpecCache == InitCache /\ [][CacheNext]_vars

----------------------------------------------------------------------------
(* C10 *)

\* the entry a valid envelope holds for content: << >>, or << the entry >>
LoadedEntry(file, content) ==
    IF /\ IsObjectFile(file)
       /\ file.version = <<CACHE_VERSION>>
       /\ file.entries # << >>
       /\ hashContent(content) \in DOMAIN file.entries[1]
    THEN <<file.entries[1][hashContent(content)]>>
    ELSE << >>

\* what the operations log[1..i] leave for content
RECURSIVE LatestFor(_, _, _)
LatestFor(log, i, content) ==
    IF i = 0 THEN << >>
    ELSE CASE log[i].op = "new"   -> LoadedEntry(log[i].file, content)
           [] log[i].op = "clear" -> << >>
           [] log[i].op = "set"   ->
                IF log[i].content = content
                THEN <<[classification |-> log[i].classification,
                        extraction |-> log[i].extraction]>>
                ELSE LatestFor(log, i - 1, content)

\* the classification and the extraction of what get returned
Returned(value) ==
    IF value = << >> THEN << >>
    ELSE <<[classification |-> value[1].classification,
            extraction |-> value[1].extraction]>>

\* C10: get(c) returns the classification and extraction of the most recent
\* set for c since the last clear (or what was loaded at construction), and
\* null when there is none.
C10_GetReturnsLatestSet ==
    lastGet # << >> =>
        /\ ~lastGet[1].threw
        /\ Returned(lastGet[1].value) =
             (LET latest == LatestFor(opLog, Len(opLog), lastGet[1].content)
              IN  IF latest = << >> THEN << >>
                  ELSE <<[classification |-> latest[1].classification,
                          extraction |-> latest[1].extraction]>>)

----------------------------------------------------------------------------
(* C11 *)

\* a step that calls writeFileSync on the cache file or changes the file
WritesCacheFile == cacheWrites' # cacheWrites \/ cacheFile' # cacheFile

\* C11 (as claimed): save() performs no write and leaves the persisted file
\* unchanged unless a set has occurred since the previous save or since
\* construction.
C11_WritesOnlyAfterSet ==
    [][ WritesCacheFile => "set" \in sinceSave ]_vars

\* C11 (amended): save() performs no write and leaves the persisted file
\* unchanged unless a set has completed or a clear has been made since the
\* previous save or since construction; when it writes it writes once, and a
\* save that directly follows a save writes nothing.
C11_WritesOnlyAfterSetOrClear ==
    /\ [][ WritesCacheFile
             => /\ sinceSave # {}
                /\ cacheWrites' = cacheWrites + 1
                /\ lastCall' = <<[op |-> "save", threw |-> FALSE]>> ]_vars
    /\ [][ (/\ lastCall = <<[op |-> "save", threw |-> FALSE]>>
            /\ lastCall' = lastCall)
             => ~WritesCacheFile ]_vars

\* a save has written the file although only a clear, and no set, was made
C11_Witness ==
    /\ lastCall = <<[op |-> "save", threw |-> FALSE]>>
    /\ cacheWrites = 1
    /\ cacheFile = saveCache(FreshCache, cacheFile, TRUE)
    /\ Len(opLog) = 2
    /\ opLog[1].file = FileValid
    /\ opLog[2].op = "clear"

----------------------------------------------------------------------------
(* C12 *)

\* C12: whatever the cache file holds (nothing, unreadable or unparsable
\* text, or JSON that is not a valid envelope), the constructed cache is
\* empty and usable: get, set, stats and save return normally, and stats
\* right after construction counts no entry.
C12_CacheFileNeverFatal ==
    /\ lastGet # << >> => ~lastGet[1].threw
    /\ lastCall # << >> => ~lastCall[1].threw
    /\ (/\ Len(opLog) = 1
        /\ opLog[1].file # FileValid
        /\ lastCall # << >>
        /\ lastCall[1].op = "stats") => lastCall[1].entries = 0

----------------------------------------------------------------------------
(* utils/chunkedProcessor.ts and utils/processing.ts                        *)
(*                                                                          *)
(* A content is known by its name, its length and the places of its        *)
(* paragraph breaks, sentence ends and newlines (none when it has no        *)
(* breaks field); the text handed to an external call is the slice          *)
(* [from, to) of a content.                                                 *)
(* An external call either rejects, << >>, or resolves to a value, << v >>. *)

\* a default configuration whose chunks do not overlap
DEFAULT_CONFIG_NoOverlap ==
    [maxChunkSize |-> 50000, sizeThreshold |-> 100000, overlapSize |-> 0,
     maxExtractionChunks |-> 5]

DEFAULT_CONFIG ==
    [maxChunkSize |-> 50000, sizeThreshold |-> 100000, overlapSize |-> 500,
     maxExtractionChunks |-> 5]

Slice(content, from, to) == [name |-> content.name, from |-> from, to |-> to]

Whole(content) == Slice(content, 0, content.length)

\* `content.length > config.sizeThreshold`, which is false when the config has
\* no sizeThreshold (a comparison with undefined)
needsChunking(content, config) ==
    /\ "sizeThreshold" \in DOMAIN config
    /\ content.length > config.sizeThreshold

\* the places where '\n\n' (paragraph), '. ' (sentence) or '\n' (newline)
\* begins in the content
Breaks(content) == IF "breaks" \in DOMAIN content THEN content.breaks ELSE {}

\* searchStart + searchRegion.lastIndexOf(pattern), for the pattern of the
\* kind, of the given length; -1 when the region does not hold the pattern
LastBreak(content, kind, length, searchStart, endPosition) ==
    The({ IF hits = {} THEN -1 ELSE CHOOSE i \in hits : \A k \in hits : k <= i
          : hits \in {{ b.at : b \in { c \in Breaks(content) :
                                          /\ c.kind = kind
                                          /\ searchStart <= c.at
                                          /\ c.at + length <= endPosition } }} })

\* endPosition of the window that starts at position, after the search for a
\* natural break point
BreakEnd(content, config, position) ==
    The({ IF endPosition >= content.length THEN endPosition
          ELSE The({ The({ IF found[1] # -1 THEN found[1] + 2
                           ELSE IF found[2] # -1 THEN found[2] + 2
                           ELSE IF found[3] # -1 THEN found[3] + 1
                           ELSE endPosition
                           : found \in {<<LastBreak(content, "paragraph", 2,
                                                    searchStart, endPosition),
                                          LastBreak(content, "sentence", 2,
                                                    searchStart, endPosition),
                                          LastBreak(content, "newline", 1,
                                                    searchStart, endPosition)>>} })
                     : searchStart \in
                         {Max(endPosition - Min(200, config.maxChunkSize \div 5),
                              position)} })
          : endPosition \in {Min(position + config.maxChunkSize, content.length)} })

\* a window that would start exactly where the next character is skipped
NextPosition_SkipsOne(position, endPosition, overlapSize) == endPosition + 1

\* a window that never overlaps the chunk before it
NextPosition_IgnoresOverlap(position, endPosition, overlapSize) == endPosition

\* `position = nextPosition > position ? nextPosition : endPosition`
NextPosition(position, endPosition, overlapSize) ==
    IF endPosition - overlapSize > position
    THEN endPosition - overlapSize
    ELSE endPosition

\* the while loop of splitIntoChunks from position on
RECURSIVE SplitFrom(_, _, _)
SplitFrom(content, config, position) ==
    The({ IF endPosition >= content.length
          THEN <<Slice(content, position, endPosition)>>
          ELSE <<Slice(content, position, endPosition)>>
                 \o The({ SplitFrom(content, config, next) :
                            next \in {NextPosition(position, endPosition,
                                                   config.overlapSize)} })
          : endPosition \in {BreakEnd(content, config, position)} })

splitIntoChunks(content, config) ==
    IF content.length <= config.maxChunkSize
    THEN <<Whole(content)>>
    ELSE SplitFrom(content, config, 0)

Resolved(merged) ==
    /\ merged.lessor # S_unknown
    /\ merged.address # S_unknown
    /\ merged.tenant # S_unknown

\* the for loop of mergeExtractionResults from results[i] on
RECURSIVE MergeFrom(_, _, _)
MergeFrom(merged, results, i) ==
    IF i > Len(results) THEN merged
    ELSE LET result == results[i]
             Take(mine, theirs) ==
                 IF mine = S_unknown /\ theirs # S_empty /\ theirs # S_unknown
                 THEN theirs ELSE mine
         IN  The({ IF Resolved(next) THEN next ELSE MergeFrom(next, results, i + 1)
                   : next \in
                      {[lessor  |-> Take(merged.lessor, result.lessor),
                        address |-> Take(merged.address, result.address),
                        tenant  |-> Take(merged.tenant, result.tenant),
                        baseReference |->
                            IF /\ merged.baseReference \in {<< >>, <<S_empty>>}
                               /\ result.baseReference \notin {<< >>, <<S_empty>>}
                            THEN result.baseReference ELSE merged.baseReference]} })

\* the for loop without its break: every result is visited
RECURSIVE MergeAll(_, _, _)
MergeAll(merged, results, i) ==
    IF i > Len(results) THEN merged
    ELSE LET result == results[i]
             Take(mine, theirs) ==
                 IF mine = S_unknown /\ theirs # S_empty /\ theirs # S_unknown
                 THEN theirs ELSE mine
         IN  The({ MergeAll(next, results, i + 1)
                   : next \in
                      {[lessor  |-> Take(merged.lessor, result.lessor),
                        address |-> Take(merged.address, result.address),
                        tenant  |-> Take(merged.tenant, result.tenant),
                        baseReference |->
                            IF /\ merged.baseReference \in {<< >>, <<S_empty>>}
                               /\ result.baseReference \notin {<< >>, <<S_empty>>}
                            THEN result.baseReference ELSE merged.baseReference]} })

\* the for loop with a baseReference that every later one overwrites
RECURSIVE MergeLast(_, _, _)
MergeLast(merged, results, i) ==
    IF i > Len(results) THEN merged
    ELSE LET result == results[i]
             Take(mine, theirs) ==
                 IF mine = S_unknown /\ theirs # S_empty /\ theirs # S_unknown
                 THEN theirs ELSE mine
         IN  The({ IF Resolved(next) THEN next ELSE MergeLast(next, results, i + 1)
                   : next \in
                      {[lessor  |-> Take(merged.lessor, result.lessor),
                        address |-> Take(merged.address, result.address),
                        tenant  |-> Take(merged.tenant, result.tenant),
                        baseReference |->
                            IF result.baseReference \notin {<< >>, <<S_empty>>}
                            THEN result.baseReference ELSE merged.baseReference]} })

\* a merge that keeps the latest base reference it meets
mergeExtractionResults_LastReference(results) == MergeLast(ExtractionNone, results, 1)

\* a merge that does not stop once lessor, address and tenant are filled
mergeExtractionResults_NoBreak(results) == MergeAll(ExtractionNone, results, 1)

\* a merge that keeps the first result as it is
mergeExtractionResults_FirstResult(results) ==
    IF results = << >> THEN ExtractionNone ELSE results[1]

mergeExtractionResults(results) == MergeFrom(ExtractionNone, results, 1)

\* Promise.all([classifyDocument(content), extractKeys(content)]): both calls
\* are made, and the whole rejects when one of them does
ClassifyAndExtract(content, oracle, info) ==
    [threw |-> oracle.classify = << >> \/ oracle.extract[1] = << >>,
     classification |-> oracle.classify,
     extraction |-> oracle.extract[1],
     chunkingInfo |-> info,
     classified |-> <<Whole(content)>>,
     extracted |-> <<Whole(content)>>]

\* an extraction loop that goes through every chunk
ChunksToProcess_AllChunks(chunks, config) == Len(chunks)

\* `const chunksToProcess = Math.min(chunks.length, config.maxExtractionChunks)`
ChunksToProcess(chunks, config) == Min(Len(chunks), config.maxExtractionChunks)

\* the extraction loop of processDocumentChunked from chunk i on
RECURSIVE ExtractFrom(_, _, _, _, _)
ExtractFrom(chunks, chunksToProcess, oracle, extractionResults, i) ==
    IF i > chunksToProcess
    THEN [threw |-> FALSE, results |-> extractionResults, made |-> i - 1]
    ELSE IF oracle.extract[i] = << >>
         THEN [threw |-> TRUE, results |-> extractionResults, made |-> i]
         ELSE The({ IF Resolved(mergeExtractionResults(now))
                    THEN [threw |-> FALSE, results |-> now, made |-> i]
                    ELSE ExtractFrom(chunks, chunksToProcess, oracle, now, i + 1)
                    : now \in {Append(extractionResults, oracle.extract[i][1])} })

processDocumentChunked(content, config, oracle) ==
    IF ~needsChunking(content, config)
    THEN ClassifyAndExtract(content, oracle,
             <<[wasChunked |-> FALSE, totalChunks |-> 1, chunksProcessed |-> 1,
                originalSize |-> content.length]>>)
    ELSE The({
         IF oracle.classify = << >>
         THEN [threw |-> TRUE, classification |-> << >>, extraction |-> << >>,
               chunkingInfo |-> << >>,
               classified |-> <<chunks[1]>>, extracted |-> << >>]
         ELSE The({
              [threw |-> loop.threw,
               classification |-> oracle.classify,
               extraction |-> IF loop.threw THEN << >>
                              ELSE <<mergeExtractionResults(loop.results)>>,
               chunkingInfo |->
                   <<[wasChunked |-> TRUE, totalChunks |-> Len(chunks),
                      chunksProcessed |-> Len(loop.results),
                      originalSize |-> content.length]>>,
               classified |-> <<chunks[1]>>,
               extracted |-> [k \in 1..loop.made |-> chunks[k]]]
              : loop \in {ExtractFrom(chunks, ChunksToProcess(chunks, config),
                                      oracle, << >>, 1)} })
         : chunks \in {splitIntoChunks(content, config)} })

\* The body of processDocument.  useCache: a cache was passed; c, d: its
\* fields; chunked: the variant of utils/processing.ts, with chunkConfig
\* << >> when none was passed.  The result carries the new cache fields and
\* the texts the external calls were made with.
ProcessDocumentBody(id, filename, content, useCache, c, d, now, chunked, chunkConfig, oracle) ==
    LET Quiet(threw, res) ==
            [threw |-> threw, result |-> res, cache |-> c, dirty |-> d,
             classified |-> << >>, extracted |-> << >>, stored |-> FALSE]
        Fresh(ext, put) ==
            IF ext.threw
            THEN [threw |-> TRUE, result |-> << >>, cache |-> c, dirty |-> d,
                  classified |-> ext.classified, extracted |-> ext.extracted,
                  stored |-> FALSE]
            ELSE [threw |-> useCache /\ put.threw,
                  result |-> IF useCache /\ put.threw THEN << >> ELSE
                      <<[doc |-> [id |-> id, filename |-> filename,
                                  classification |-> ext.classification[1],
                                  extraction |-> ext.extraction[1],
                                  content |-> content],
                         fromCache |-> FALSE,
                         chunkingInfo |-> ext.chunkingInfo]>>,
                  cache |-> IF useCache THEN put.cache ELSE c,
                  dirty |-> IF useCache THEN put.dirty ELSE d,
                  classified |-> ext.classified, extracted |-> ext.extracted,
                  stored |-> useCache]
    IN  The({
        IF useCache /\ cached.threw THEN Quiet(TRUE, << >>)
        ELSE IF useCache /\ cached.value # << >>
        THEN Quiet(FALSE,
                 <<[doc |-> [id |-> id, filename |-> filename,
                             classification |-> cached.value[1].classification,
                             extraction |-> cached.value[1].extraction,
                             content |-> content],
                    fromCache |-> TRUE, chunkingInfo |-> << >>]>>)
        ELSE The({ The({ Fresh(ext, put)
                         : put \in {IF ext.threw \/ ~useCache
                                    THEN [threw |-> FALSE, cache |-> c, dirty |-> d]
                                    ELSE DocumentCacheSet(c, d, content,
                                             ext.classification[1],
                                             ext.extraction[1], now)} })
                   : ext \in {IF chunked /\ needsChunking(content, DEFAULT_CONFIG)
                              THEN processDocumentChunked(content,
                                       IF chunkConfig # << >> THEN chunkConfig[1]
                                       ELSE DEFAULT_CONFIG, oracle)
                              ELSE ClassifyAndExtract(content, oracle, << >>)} })
        : cached \in {IF useCache THEN getCachedResult(content, c)
                      ELSE [threw |-> FALSE, value |-> << >>]} })

----------------------------------------------------------------------------
(* processDocument (utils/processing.ts) called on the documents of a       *)
(* folder, one after another, by a caller that may share one DocumentCache, *)
(* may flush it in between, and stops at the first rejection                *)

\* the documents of the caller, in the order it processes them: a.md and
\* b.txt have the same content
Sources ==
    << [id |-> "a", filename |-> "a.md",  content |-> TextA],
       [id |-> "b", filename |-> "b.txt", content |-> TextA],
       [id |-> "c", filename |-> "c.txt", content |-> TextL] >>

\* the chunkConfig argument (a Partial<ChunkConfig>): none, a configuration,
\* or some fields of one
ChunkConfigs ==
    {<< >>,
     <<[maxChunkSize |-> 60000, sizeThreshold |-> 100000, overlapSize |-> 0,
        maxExtractionChunks |-> 1]>>,
     <<[maxChunkSize |-> 60000, sizeThreshold |-> 200000, overlapSize |-> 0,
        maxExtractionChunks |-> 1]>>,
     <<[maxChunkSize |-> 50000, sizeThreshold |-> 5, overlapSize |-> 500,
        maxExtractionChunks |-> 5]>>,
     <<[maxExtractionChunks |-> 1]>>}

Answers(S) == {<< >>} \cup {<<v>> : v \in S}

\* The answers of the external capabilities to one processDocument call: one
\* for classifyDocument and one for each extractKeys call it can make.  No
\* extractKeys call follows one that rejects or that resolves every field, so
\* the answers after such a one are left out (<< >>).
Oracles ==
    {o \in [classify : Answers(Classifications),
            extract  : [1..Len(splitIntoChunks(TextL, DEFAULT_CONFIG)) ->
                           Answers(Extractions)]] :
        \A k \in DOMAIN o.extract :
            (o.extract[k] = << >> \/ Resolved(o.extract[k][1]))
                => \A later \in DOMAIN o.extract : later > k => o.extract[later] = << >>}

ProcInit ==
    /\ cacheFile \in {FileMissing, FileValid, FileNoEntries}
    /\ cache = <<loadCache(cacheFile)>>
    /\ dirty = FALSE
    /\ clock = 1
    /\ opLog = << >>
    /\ lastGet = << >>
    /\ lastCall = << >>
    /\ sinceSave = {}
    /\ cacheWrites = 0
    /\ ProcIdle

\* await processDocument(id, filename, content, cache?, chunkConfig?)
ProcessDocument ==
    /\ ppc = "idle"
    /\ Len(calls) < Len(Sources)
    /\ \E useCache \in BOOLEAN, cfg \in ChunkConfigs, oracle \in Oracles :
         \E src \in {Sources[Len(calls) + 1]} :
         \E r \in {ProcessDocumentBody(src.id, src.filename, src.content, useCache,
                                       cache[1], dirty, clock, TRUE, cfg, oracle)} :
             /\ cache' = <<r.cache>>
             /\ dirty' = r.dirty
             /\ clock' = IF r.stored THEN clock + 1 ELSE clock
             /\ classifyCalls' = classifyCalls \o r.classified
             /\ extractCalls' = extractCalls \o r.extracted
             /\ calls' = Append(calls,
                    [id |-> src.id, filename |-> src.filename, content |-> src.content,
                     useCache |-> useCache, threw |-> r.threw, result |-> r.result])
             /\ chunkConfigArg' = cfg
             /\ ppc' = IF r.threw THEN "threw" ELSE "idle"
             /\ sinceSave' = IF r.stored THEN sinceSave \cup {"set"} ELSE sinceSave
    /\ UNCHANGED <<cacheFile, opLog, lastGet, lastCall, cacheWrites, gvars, rvars, svars, kvars, mvars, qvars, dvars, wvars>>

\* cache.save() between two documents
ProcSave ==
    /\ ppc = "idle"
    /\ Save
    /\ UNCHANGED <<pvars, gvars, rvars, svars, kvars, mvars, qvars, dvars, wvars>>

ProcNext == ProcessDocument \/ ProcSave

InitProc == ProcInit /\ GroupInit /\ RunIdle /\ SplitIdle /\ ChunkedIdle /\ MergeIdle /\ QueryIdle /\ ReadIdle /\ FlowIdle

SpecProc == InitProc /\ [][ProcNext]_vars

----------------------------------------------------------------------------
(* C9 *)

\* the cache data c holds an entry for content
Holds(c, content) ==
    /\ c.entries # << >>
    /\ hashContent(content) \in DOMAIN c.entries[1]

EntryOf(c, content) == c.entries[1][hashContent(content)]

\* C9: when processDocument is given a cache that holds an entry for the
\* content, it makes no classify and no extract call, returns the cached
\* classification and extraction with the caller's id and filename and
\* fromCache = true, and leaves the entries and the dirty flag unchanged; so
\* of two documents with the same content processed with the cache, the
\* second is served from it.
C9_CacheHitMakesNoCalls ==
    /\ [][ (/\ Len(calls') = Len(calls) + 1
            /\ calls'[Len(calls')].useCache
            /\ Holds(cache[1], calls'[Len(calls')].content))
           => LET call == calls'[Len(calls')]
              IN  /\ classifyCalls' = classifyCalls
                  /\ extractCalls' = extractCalls
                  /\ ~call.threw
                  /\ call.result =
                       <<[doc |-> [id |-> call.id, filename |-> call.filename,
                                   classification |->
                                       EntryOf(cache[1], call.content).classification,
                                   extraction |->
                                       EntryOf(cache[1], call.content).extraction,
                                   content |-> call.content],
                          fromCache |-> TRUE, chunkingInfo |-> << >>]>>
                  /\ cache' = cache
                  /\ dirty' = dirty
         ]_vars
    /\ [](\A i, j \in DOMAIN calls :
            (/\ i < j
             /\ calls[i].content = calls[j].content
             /\ calls[i].useCache /\ calls[j].useCache
             /\ ~calls[i].threw)
            => /\ ~calls[j].threw
               /\ calls[j].result[1].fromCache
               /\ calls[j].result[1].doc.classification
                    = calls[i].result[1].doc.classification
               /\ calls[j].result[1].doc.extraction
                    = calls[i].result[1].doc.extraction)

\* a document was processed by the external calls and stored, and a later
\* document of another id with the same content was served from the cache
C9_Witness ==
    \E i, j \in DOMAIN calls :
        /\ i < j
        /\ calls[i].content = calls[j].content
        /\ calls[i].id # calls[j].id
        /\ calls[i].useCache /\ ~calls[i].threw /\ ~calls[i].result[1].fromCache
        /\ calls[j].useCache /\ ~calls[j].threw /\ calls[j].result[1].fromCache
        /\ calls[j].result[1].doc.id = calls[j].id
        /\ Len(classifyCalls) = 1

----------------------------------------------------------------------------
(* workflows/groupDocuments.ts: organizeDocuments                           *)

MaxRunDocs == 3

\* the for loop of groupDocuments from docs[i] on
RECURSIVE GroupFrom(_, _, _)
GroupFrom(st, docs, i) ==
    IF i > Len(docs) \/ st.threw THEN st
    ELSE GroupFrom(GroupStep(st, docs[i]), docs, i + 1)

\* groupDocuments(docs), where ctor holds what earlier calls left on the
\* function Object
\* the end of groupDocuments on the state st the loop left
GroupingResult(st, docs) ==
    [threw |-> st.threw,
     objectCtor |-> st.objectCtor,
     result |-> [grouped |-> st.grouped, ungrouped |-> st.ungrouped,
                 stats |-> CalculateStats(docs, st.grouped, st.ungrouped)]]

groupDocuments(docs, ctor) ==
    GroupingResult(GroupFrom([grouped |-> << >>, ungrouped |-> << >>,
                              objectCtor |-> ctor, threw |-> FALSE], docs, 1), docs)

\* the result returned for an empty folder
EmptyResult ==
    [grouped |-> << >>, ungrouped |-> << >>,
     stats |-> [totalDocuments |-> 0, groupedDocuments |-> 0,
                ungroupedDocuments |-> 0, lessors |-> 0, addresses |-> 0]]

\* the files of sel, a set of positions in Files, in the order of Files
RECURSIVE Listing(_, _)
Listing(sel, text) ==
    IF sel = {} THEN << >>
    ELSE LET i == CHOOSE k \in sel : \A other \in sel : k <= other
         IN  <<[id |-> Files[i].id, filename |-> Files[i].filename,
                content |-> text[i]]>> \o Listing(sel \ {i}, text)

\* what readDocsTool can return as documents: the readable files of the
\* folder, sorted by filename, each with its text
Folders ==
    {Listing(sel, text) :
        sel \in {x \in SUBSET DOMAIN Files : Cardinality(x) <= MaxRunDocs},
        text \in [DOMAIN Files -> {TextA, TextB}]}

\* no cooldown at all
NeedsCooldown_Never(fromCache, i, length) == FALSE

\* a cooldown before the next document whatever the source of the result
NeedsCooldown_AfterCached(fromCache, i, length) == i < length

\* if (!fromCache && i < readResult.documents.length - 1), where i counts the
\* documents from 1
NeedsCooldown(fromCache, i, length) == ~fromCache /\ i < length

RunInit ==
    /\ cacheFile \in {FileMissing, FileValid, FileNoEntries}
    /\ cache = << >>
    /\ dirty = FALSE
    /\ clock = 1
    /\ opLog = << >>
    /\ lastGet = << >>
    /\ lastCall = << >>
    /\ sinceSave = {}
    /\ cacheWrites = 0
    /\ ProcIdle
    /\ RunIdle

\* from the call to the start of the loop: the cache is constructed and its
\* stats are logged, then the folder is read
RunStart ==
    /\ rpc = "start"
    /\ cache' = <<loadCache(cacheFile)>>
    /\ IF loadCache(cacheFile).entries = << >>
       THEN \* Object.keys(this.cache.entries) in stats() throws a TypeError
            /\ rpc' = "threw"
            /\ UNCHANGED <<readResult, runResult>>
       ELSE \E folder \in Folders :
            /\ readResult' = folder
            /\ IF Len(folder) = 0
               THEN rpc' = "returned" /\ runResult' = <<EmptyResult>>
               ELSE rpc' = "loop" /\ UNCHANGED runResult
    /\ UNCHANGED <<cacheFile, dirty, clock, opLog, lastGet, lastCall, sinceSave,
                   cacheWrites, pvars, processedDocs,
                   outcomes, sleeps, groupingFile, snapshotWrites, gvars, svars, kvars, mvars, qvars, dvars, wvars>>

\* one iteration of the loop up to its cooldown: await processDocument(...)
RunProcessDocument ==
    /\ rpc = "loop"
    /\ Len(outcomes) < Len(readResult)
    /\ \E oracle \in Oracles :
         \E i \in {Len(outcomes) + 1} :
         \E doc \in {readResult[i]} :
         \E r \in {ProcessDocumentBody(doc.id, doc.filename, doc.content, TRUE,
                                       cache[1], dirty, clock, FALSE, << >>, oracle)} :
             /\ cache' = <<r.cache>>
             /\ dirty' = r.dirty
             /\ clock' = IF r.stored THEN clock + 1 ELSE clock
             /\ classifyCalls' = classifyCalls \o r.classified
             /\ extractCalls' = extractCalls \o r.extracted
             /\ IF r.threw
                THEN \* the rejection leaves organizeDocuments
                     /\ outcomes' = Append(outcomes, "failed")
                     /\ rpc' = "threw"
                     /\ UNCHANGED processedDocs
                ELSE /\ processedDocs' = Append(processedDocs, r.result[1].doc)
                     /\ outcomes' = Append(outcomes,
                            IF r.result[1].fromCache THEN "cached" ELSE "processed")
                     /\ rpc' = IF NeedsCooldown(r.result[1].fromCache, i,
                                                Len(readResult))
                               THEN "sleep" ELSE "loop"
             /\ sinceSave' = IF r.stored THEN sinceSave \cup {"set"} ELSE sinceSave
    /\ UNCHANGED <<cacheFile, opLog, lastGet, lastCall, cacheWrites, calls, ppc,
                   chunkConfigArg,
                   readResult, sleeps,
                   runResult, groupingFile, snapshotWrites, gvars, svars, kvars, mvars, qvars, dvars, wvars>>

\* await sleep(RATE_LIMIT_DELAY_MS) is over
RunSleep ==
    /\ rpc = "sleep"
    /\ sleeps' = sleeps + 1
    /\ rpc' = "loop"
    /\ UNCHANGED <<cvars, pvars, readResult, processedDocs, outcomes, runResult,
                   groupingFile, snapshotWrites, gvars, svars, kvars, mvars, qvars, dvars, wvars>>

\* after the loop: cache.save() and return groupDocuments(processedDocs)
RunFinish ==
    /\ rpc = "loop"
    /\ Len(outcomes) = Len(readResult)
    /\ \E writeOk \in BOOLEAN :
         cacheFile' = IF dirty THEN saveCache(cache[1], cacheFile, writeOk) ELSE cacheFile
    /\ cacheWrites' = IF dirty THEN cacheWrites + 1 ELSE cacheWrites
    /\ dirty' = FALSE
    /\ sinceSave' = {}
    /\ \E g \in {groupDocuments(processedDocs, objectCtor)} :
           /\ objectCtor' = g.objectCtor
           /\ IF g.threw
              THEN rpc' = "threw" /\ UNCHANGED runResult
              ELSE rpc' = "returned" /\ runResult' = <<g.result>>
    /\ UNCHANGED <<cache, clock, opLog, lastGet, lastCall, pvars, readResult,
                   processedDocs, outcomes, sleeps, groupingFile, snapshotWrites,
                   documents, grouped, ungrouped, stats, gpc, svars, kvars, mvars, qvars, dvars, wvars>>

RunNext == RunStart \/ RunProcessDocument \/ RunSleep \/ RunFinish

InitRun == RunInit /\ GroupInit /\ SplitIdle /\ ChunkedIdle /\ MergeIdle /\ QueryIdle /\ ReadIdle /\ FlowIdle

SpecRun == InitRun /\ [][RunNext]_vars

----------------------------------------------------------------------------
(* utils/leaseQuery.ts: the grouping store and the LeaseQuery lookups       *)
(*                                                                          *)
(* null and undefined are << >>; a value that may be one of them is         *)
(* << v >> when it is present.                                              *)

\* JSON.stringify on a document: a property whose value is undefined is left
\* out of the text
DocumentJSON(doc) ==
    IF "baseReference" \in DOMAIN doc.extraction /\ doc.extraction.baseReference = << >>
    THEN [doc EXCEPT !.extraction =
             [f \in (DOMAIN doc.extraction) \ {"baseReference"} |-> doc.extraction[f]]]
    ELSE doc

DocumentsJSON(docs) == [i \in DOMAIN docs |-> DocumentJSON(docs[i])]

\* JSON.stringify writes the properties of an object in the order of
\* Object.keys, and JSON.parse creates them in the order of the text
AddressesJSON(addresses) ==
    LET keys == ObjectKeys(addresses)
    IN  [i \in DOMAIN keys |->
           [key |-> keys[i],
            val |-> [leaseFile |-> OwnValue(addresses, keys[i]).leaseFile,
                     documents |-> DocumentsJSON(OwnValue(addresses, keys[i]).documents)]]]

GroupedJSON(g) ==
    LET keys == ObjectKeys(g)
    IN  [i \in DOMAIN keys |->
           [key |-> keys[i], val |-> AddressesJSON(OwnValue(g, keys[i]))]]

\* JSON.parse(JSON.stringify(result, null, 2)) for a GroupingResult
ResultJSON(result) ==
    [grouped |-> GroupedJSON(result.grouped),
     ungrouped |-> DocumentsJSON(result.ungrouped),
     stats |-> result.stats]

\* saveGroupingResult that leaves an existing snapshot as it is
saveGroupingResult_KeepsFirst(result, file, outcome) ==
    IF file.kind = "object" /\ "grouped" \in DOMAIN file.value
    THEN [threw |-> FALSE, file |-> file]
    ELSE [threw |-> FALSE, file |-> [kind |-> "object", value |-> ResultJSON(result)]]

\* saveGroupingResult: writeFileSync(filePath, JSON.stringify(result, null, 2)).
\* The write succeeds ("written"), or it throws with the file as it was
\* ("refused": the file cannot be opened) or cut short ("truncated"); the
\* exception is not caught.
saveGroupingResult(result, file, outcome) ==
    CASE outcome = "written" ->
           [threw |-> FALSE, file |-> [kind |-> "object", value |-> ResultJSON(result)]]
      [] outcome = "refused" -> [threw |-> TRUE, file |-> file]
      [] outcome = "truncated" -> [threw |-> TRUE, file |-> [kind |-> "unparsable"]]

\* loadGroupingResult: << >> for null, << value >> for the parsed object
loadGroupingResult(file) ==
    CASE file.kind = "missing"    -> << >>          \* existsSync is false
      [] file.kind = "unreadable" -> << >>          \* readFileSync throws, caught
      [] file.kind = "unparsable" -> << >>          \* JSON.parse throws, caught
      [] file.kind = "null"       -> << >>          \* JSON.parse returns null
      [] file.kind = "object"     -> <<file.value>>

\* new LeaseQuery(filePath): [threw, result]
LeaseQueryNew(file) ==
    LET loaded == loadGroupingResult(file)
    IN  IF loaded = << >> THEN [threw |-> TRUE, result |-> << >>]
        ELSE [threw |-> FALSE, result |-> loaded]

\* reload that assigns whatever it loaded, null included
LeaseQueryReload_AssignsFirst(result, file) ==
    [threw |-> loadGroupingResult(file) = << >>, result |-> loadGroupingResult(file)]

\* reload that drops what it read
LeaseQueryReload_KeepsOld(result, file) ==
    [threw |-> loadGroupingResult(file) = << >>, result |-> result]

\* LeaseQuery.reload on this.result = result: [threw, result]
LeaseQueryReload(result, file) ==
    LET loaded == loadGroupingResult(file)
    IN  IF loaded = << >> THEN [threw |-> TRUE, result |-> result]
        ELSE [threw |-> FALSE, result |-> loaded]

\* what a lookup returns
Null == [kind |-> "null"]

List(items) == [kind |-> "list", items |-> items]

Returns(value) == [threw |-> FALSE, returned |-> value]

\* a TypeError: a property of undefined is read
Throws == [threw |-> TRUE, returned |-> Null]

\* obj[k] for a plain object obj (own is FALSE for the function Object, whose
\* own properties are those of ctor): the own property, or for an inherited
\* name a function (Object.prototype.constructor, Function.prototype.constructor),
\* or undefined
Property(obj, k) ==
    IF HasOwn(obj, k) THEN [kind |-> "own", val |-> OwnValue(obj, k)]
    ELSE IF k \in InheritedNames THEN [kind |-> "function"]
    ELSE [kind |-> "undefined"]

\* LeaseQuery.getLeaseDetails on this.result = result
getLeaseDetails(result, ctor, lessor, address) ==
    IF "grouped" \notin DOMAIN result THEN Throws
    ELSE LET lessorData == Property(result.grouped, lessor)
         IN  IF lessorData.kind = "undefined" THEN Returns(Null)
             ELSE LET addressData ==
                          Property(IF lessorData.kind = "own" THEN lessorData.val
                                   ELSE ctor, address)
                  IN  CASE addressData.kind = "undefined" -> Returns(Null)
                        [] addressData.kind = "own" ->
                             Returns([kind |-> "details", lessor |-> lessor,
                                      address |-> address,
                                      leaseFile |-> <<addressData.val.leaseFile>>,
                                      documents |-> <<addressData.val.documents>>])
                        [] addressData.kind = "function" ->
                             \* a function has no leaseFile and no documents
                             Returns([kind |-> "details", lessor |-> lessor,
                                      address |-> address,
                                      leaseFile |-> << >>, documents |-> << >>])

\* LeaseQuery.getAddresses
getAddresses(result, ctor, lessor) ==
    IF "grouped" \notin DOMAIN result THEN Throws
    ELSE LET lessorData == Property(result.grouped, lessor)
         IN  CASE lessorData.kind = "undefined" -> Returns(List(<< >>))
               [] lessorData.kind = "own" -> Returns(List(ObjectKeys(lessorData.val)))
               [] lessorData.kind = "function" -> Returns(List(ObjectKeys(ctor)))

\* details.documents.filter((doc) => ids.has(doc.id)) for the ids of one slot
\* of the bundle
ByIds(result, ctor, lessor, address, slot) ==
    LET d == getLeaseDetails(result, ctor, lessor, address)
    IN  IF d.threw THEN Throws
        ELSE IF d.returned = Null THEN Returns(List(<< >>))
        ELSE IF d.returned.leaseFile = << >> THEN Throws
        ELSE Returns(List(SelectSeq(d.returned.documents[1],
                          LAMBDA doc : doc.id \in Range(d.returned.leaseFile[1][slot]))))

getAmendments(result, ctor, lessor, address) ==
    ByIds(result, ctor, lessor, address, "amendments")

getCommencements(result, ctor, lessor, address) ==
    ByIds(result, ctor, lessor, address, "commencements")

getDeliveries(result, ctor, lessor, address) ==
    ByIds(result, ctor, lessor, address, "deliveries")

\* documents.find((doc) => doc.id === id) || null
FindById(docs, id) ==
    LET hits == { i \in DOMAIN docs : docs[i].id = id }
    IN  IF hits = {} THEN Null
        ELSE [kind |-> "document",
              document |-> docs[CHOOSE i \in hits : \A k \in hits : i <= k]]

\* LeaseQuery.getBaseLease
getBaseLease(result, ctor, lessor, address) ==
    LET d == getLeaseDetails(result, ctor, lessor, address)
    IN  IF d.threw THEN Throws
        ELSE IF d.returned = Null THEN Returns(Null)
        ELSE IF d.returned.leaseFile = << >> THEN Throws
        ELSE IF d.returned.leaseFile[1].baseLease = << >> THEN Returns(Null)
        ELSE Returns(FindById(d.returned.documents[1],
                              d.returned.leaseFile[1].baseLease[1]))

\* new Map(documents.map((d) => [d.id, d])).get(id): the last document with
\* the id, << >> when there is none
MapGet(docs, id) ==
    LET hits == { i \in DOMAIN docs : docs[i].id = id }
    IN  IF hits = {} THEN << >>
        ELSE <<docs[CHOOSE i \in hits : \A k \in hits : k <= i]>>

\* ids.map((id) => docMap.get(id)!).filter(Boolean)
RECURSIVE MapIds(_, _)
MapIds(docs, ids) ==
    IF ids = << >> THEN << >>
    ELSE MapGet(docs, Head(ids)) \o MapIds(docs, Tail(ids))

\* LeaseQuery.getRelatedDocuments
getRelatedDocuments(result, ctor, lessor, address) ==
    LET d == getLeaseDetails(result, ctor, lessor, address)
    IN  IF d.threw THEN Throws
        ELSE IF d.returned = Null THEN Returns(Null)
        ELSE IF d.returned.documents = << >> THEN Throws
        ELSE LET leaseFile == d.returned.leaseFile[1]
                 docs == d.returned.documents[1]
             IN  Returns([kind |-> "related",
                          baseLease |-> IF leaseFile.baseLease = << >> THEN << >>
                                        ELSE MapGet(docs, leaseFile.baseLease[1]),
                          amendments |-> MapIds(docs, leaseFile.amendments),
                          commencements |-> MapIds(docs, leaseFile.commencements),
                          deliveries |-> MapIds(docs, leaseFile.deliveries),
                          others |-> MapIds(docs, leaseFile.others)])

\* the summaries of the bundles under one lessor, in the order of Object.entries
LeasesUnder(lessor, addresses) ==
    LET keys == ObjectKeys(addresses)
    IN  [i \in DOMAIN keys |->
           LET data == OwnValue(addresses, keys[i])
           IN  [lessor |-> lessor, address |-> keys[i],
                baseLease |-> data.leaseFile.baseLease,
                amendmentCount |-> Len(data.leaseFile.amendments),
                commencementCount |-> Len(data.leaseFile.commencements),
                deliveryCount |-> Len(data.leaseFile.deliveries),
                otherCount |-> Len(data.leaseFile.others),
                totalDocuments |-> Len(data.documents)]]

RECURSIVE LeasesFrom(_, _)
LeasesFrom(g, keys) ==
    IF keys = << >> THEN << >>
    ELSE LeasesUnder(Head(keys), OwnValue(g, Head(keys))) \o LeasesFrom(g, Tail(keys))

\* LeaseQuery.getAllLeases
getAllLeases(result) ==
    IF "grouped" \notin DOMAIN result THEN Throws
    ELSE Returns(List(LeasesFrom(result.grouped, ObjectKeys(result.grouped))))

\* String.prototype.includes
Includes(text, query) ==
    \E i \in 0..(Len(text) - Len(query)) : SubSeq(text, i + 1, i + Len(query)) = query

\* LeaseQuery.searchByLessor and searchByAddress: field is "lessor" or "address"
SearchBy(result, field, query) ==
    LET all == getAllLeases(result)
    IN  IF all.threw THEN Throws
        ELSE Returns(List(SelectSeq(all.returned.items,
                 LAMBDA lease : Includes(toLowerCase(lease[field]), toLowerCase(query)))))

\* the first bundle, in the order of the nested Object.entries loops, that
\* holds a document with the id
RECURSIVE FindInAddresses(_, _, _, _)
FindInAddresses(lessor, addresses, keys, id) ==
    IF keys = << >> THEN Null
    ELSE LET hit == FindById(OwnValue(addresses, Head(keys)).documents, id)
         IN  IF hit # Null
             THEN [kind |-> "found", document |-> hit.document,
                   lessor |-> lessor, address |-> Head(keys)]
             ELSE FindInAddresses(lessor, addresses, Tail(keys), id)

RECURSIVE FindInGrouped(_, _, _)
FindInGrouped(g, keys, id) ==
    IF keys = << >> THEN Null
    ELSE LET addresses == OwnValue(g, Head(keys))
             hit == FindInAddresses(Head(keys), addresses, ObjectKeys(addresses), id)
         IN  IF hit # Null THEN hit ELSE FindInGrouped(g, Tail(keys), id)

\* LeaseQuery.findDocumentById
findDocumentById(result, id) ==
    IF "grouped" \notin DOMAIN result THEN Throws
    ELSE LET hit == FindInGrouped(result.grouped, ObjectKeys(result.grouped), id)
         IN  IF hit # Null THEN Returns(hit)
             ELSE IF "ungrouped" \notin DOMAIN result THEN Throws
             ELSE LET loose == FindById(result.ungrouped, id)
                  IN  IF loose = Null THEN Returns(Null)
                      ELSE Returns([kind |-> "found", document |-> loose.document,
                                    lessor |-> S_unknown, address |-> S_unknown])

----------------------------------------------------------------------------
(* C7 *)

\* C7: when classification or extraction fails for a document of a batch
\* run, the run is not ended by it: the documents after it are still
\* processed and the run returns a grouping result.
C7_RunSurvivesFailedDocument ==
    (\E i \in DOMAIN outcomes : outcomes[i] = "failed" /\ i < Len(readResult))
        => rpc # "threw"

----------------------------------------------------------------------------
(* C8 *)

\* C8: a batch run in which every document was processed successfully has,
\* when it returns, written the grouping snapshot exactly once, and the
\* snapshot is the result it returns.
C8_SnapshotWrittenOnce ==
    (/\ rpc = "returned"
     /\ Len(processedDocs) >= 1
     /\ \A i \in DOMAIN outcomes : outcomes[i] # "failed")
    => /\ snapshotWrites = 1
       /\ groupingFile = saveGroupingResult(runResult[1], groupingFile, "written").file

----------------------------------------------------------------------------
(* utils/chunkedProcessor.ts: splitIntoChunks, character by character       *)
(*                                                                          *)
(* A content is a sequence of characters.  slice(from, to) of the source is *)
(* SubSeq(content, from + 1, to).                                           *)

MaxLen == 20

MaxChunkSize == 15

MaxOverlap == 2

\* the loop is followed for at most this many iterations: two more than a
\* loop that moves forward by at least one character each time can make
MaxIterations == MaxLen + 2

Repeat(c, n) == [i \in 1..n |-> c]

\* the places a chunk may be cut at: paragraph breaks, sentence ends, newlines
BreakClusters ==
    { << >>, <<"\n">>, <<"\n", "\n">>, <<".">>, <<".", " ">>,
      <<".", " ", "\n">>, <<"\n", "\n", ".", " ">> }

\* plain text around one cluster of break characters
SplitContents ==
    { c \in { Repeat("a", i) \o b \o Repeat("a", j) :
                i \in 0..MaxLen, j \in 0..MaxLen, b \in BreakClusters } :
        Len(c) <= MaxLen }

SplitConfigs ==
    [maxChunkSize : 0..MaxChunkSize, overlapSize : 0..MaxOverlap]

\* String.prototype.lastIndexOf: the last index the pattern occurs at, or -1
LastIndexOf(region, pattern) ==
    LET hits == { i \in 0..(Len(region) - Len(pattern)) :
                    SubSeq(region, i + 1, i + Len(pattern)) = pattern }
    IN  IF hits = {} THEN -1 ELSE CHOOSE i \in hits : \A k \in hits : k <= i

\* a window that is one character too long and ignores break points
ChunkEnd_OneMore(content, config, position) ==
    Min(position + config.maxChunkSize + 1, Len(content))

\* a window cut after the latest break of any kind in the search region
ChunkEnd_LatestBreak(content, config, position) ==
    LET endPosition == Min(position + config.maxChunkSize, Len(content))
        searchLength == Min(200, config.maxChunkSize \div 5)
        searchStart == Max(endPosition - searchLength, position)
        searchRegion == SubSeq(content, searchStart + 1, endPosition)
        paragraphBreak == LastIndexOf(searchRegion, <<"\n", "\n">>)
        sentenceEnd == LastIndexOf(searchRegion, <<".", " ">>)
        newlineBreak == LastIndexOf(searchRegion, <<"\n">>)
        cuts == {searchStart + paragraphBreak + 2 : x \in {1} \ {-paragraphBreak}}
                  \cup {searchStart + sentenceEnd + 2 : x \in {1} \ {-sentenceEnd}}
                  \cup {searchStart + newlineBreak + 1 : x \in {1} \ {-newlineBreak}}
    IN  IF endPosition < Len(content) /\ cuts # {}
        THEN CHOOSE c \in cuts : \A d \in cuts : d <= c
        ELSE endPosition

\* endPosition of the window that starts at position, after the search for a
\* natural break point
ChunkEnd(content, config, position) ==
    LET endPosition == Min(position + config.maxChunkSize, Len(content))
        searchLength == Min(200, config.maxChunkSize \div 5)
        searchStart == Max(endPosition - searchLength, position)
        searchRegion == SubSeq(content, searchStart + 1, endPosition)
        paragraphBreak == LastIndexOf(searchRegion, <<"\n", "\n">>)
        sentenceEnd == LastIndexOf(searchRegion, <<".", " ">>)
        newlineBreak == LastIndexOf(searchRegion, <<"\n">>)
    IN  IF endPosition < Len(content)
        THEN IF paragraphBreak # -1 THEN searchStart + paragraphBreak + 2
             ELSE IF sentenceEnd # -1 THEN searchStart + sentenceEnd + 2
             ELSE IF newlineBreak # -1 THEN searchStart + newlineBreak + 1
             ELSE endPosition
        ELSE endPosition

SplitInit ==
    /\ splitContent \in SplitContents
    /\ splitConfig \in SplitConfigs
    /\ splitPosition = 0
    /\ splitChunks = << >>
    /\ splitWindows = << >>
    /\ spc = "start"

\* the call: a content that fits in one chunk is returned as it is
SplitStart ==
    /\ spc = "start"
    /\ IF Len(splitContent) <= splitConfig.maxChunkSize
       THEN /\ splitChunks' = <<splitContent>>
            /\ splitWindows' = <<<<0, Len(splitContent)>>>>
            /\ spc' = "returned"
       ELSE /\ spc' = "loop"
            /\ UNCHANGED <<splitChunks, splitWindows>>
    /\ UNCHANGED <<splitContent, splitConfig, splitPosition, gvars, cvars, pvars, rvars,
                   kvars, mvars, qvars, dvars, wvars>>

\* one iteration of `while (position < content.length)`
SplitIterate ==
    /\ spc = "loop"
    /\ splitPosition < Len(splitContent)
    /\ Len(splitChunks) < MaxIterations
    /\ \E endPosition \in {ChunkEnd(splitContent, splitConfig, splitPosition)} :
         /\ splitChunks' = Append(splitChunks,
                                  SubSeq(splitContent, splitPosition + 1, endPosition))
         /\ splitWindows' = Append(splitWindows, <<splitPosition, endPosition>>)
         /\ IF endPosition >= Len(splitContent)
            THEN spc' = "returned" /\ UNCHANGED splitPosition
            ELSE /\ spc' = "loop"
                 /\ splitPosition' = NextPosition(splitPosition, endPosition,
                                                  splitConfig.overlapSize)
    /\ UNCHANGED <<splitContent, splitConfig, gvars, cvars, pvars, rvars, kvars, mvars, qvars, dvars, wvars>>

SplitNext == SplitStart \/ SplitIterate

InitSplit == SplitInit /\ GroupInit /\ CacheIdle /\ ProcIdle /\ RunIdle /\ ChunkedIdle /\ MergeIdle /\ QueryIdle /\ ReadIdle /\ FlowIdle

SpecSplit == InitSplit /\ [][SplitNext]_vars

\* the characters of a content seen as a length and the places of its breaks
AsContent(text) ==
    [name |-> "T", length |-> Len(text),
     breaks |->
        {[at |-> i, kind |-> "paragraph"] :
            i \in {k \in 0..(Len(text) - 2) : SubSeq(text, k + 1, k + 2) = <<"\n", "\n">>}}
        \cup {[at |-> i, kind |-> "sentence"] :
            i \in {k \in 0..(Len(text) - 2) : SubSeq(text, k + 1, k + 2) = <<".", " ">>}}
        \cup {[at |-> i, kind |-> "newline"] :
            i \in {k \in 0..(Len(text) - 1) : text[k + 1] = "\n"}}]

\* The loop followed character by character cuts the content where
\* splitIntoChunks, computed from the length and the places of the breaks,
\* cuts it.
SplitModelsAgree ==
    (spc = "returned" /\ splitConfig.maxChunkSize >= 1)
      => \E chunks \in {splitIntoChunks(AsContent(splitContent), splitConfig)} :
           /\ Len(chunks) = Len(splitWindows)
           /\ \A i \in DOMAIN chunks :
                splitWindows[i] = <<chunks[i].from, chunks[i].to>>

----------------------------------------------------------------------------
(* C13 *)

\* C13: splitIntoChunks terminates for every content and every non-negative
\* maxChunkSize and overlapSize: every iteration of the loop that does not
\* return moves position strictly forward, so each window starts strictly
\* after the start of the previous one.
C13_EachWindowStartsLater ==
    [][ (spc = "loop" /\ spc' = "loop") => splitPosition' > splitPosition ]_vars

----------------------------------------------------------------------------
(* C14 *)

\* the offsets of the characters that lie in the chunk sliced at window w
Covered(w) == { k \in 0..(Len(splitContent) - 1) : w[1] <= k /\ k < w[2] }

\* C14: when splitIntoChunks returns for a content longer than maxChunkSize,
\* the chunks are contiguous substrings of the content in strictly increasing
\* start order, the first starts at offset 0, the last ends at the final
\* offset, each chunk starts at or before the end of the chunk before it, and
\* every character of the content lies in at least one chunk.
C14_ChunksCoverContent ==
    (spc = "returned" /\ Len(splitContent) > splitConfig.maxChunkSize)
      => /\ Len(splitChunks) = Len(splitWindows)
         /\ Len(splitChunks) >= 1
         /\ \A i \in DOMAIN splitChunks :
              /\ 0 <= splitWindows[i][1]
              /\ splitWindows[i][1] <= splitWindows[i][2]
              /\ splitWindows[i][2] <= Len(splitContent)
              /\ splitChunks[i]
                   = SubSeq(splitContent, splitWindows[i][1] + 1, splitWindows[i][2])
         /\ splitWindows[1][1] = 0
         /\ splitWindows[Len(splitWindows)][2] = Len(splitContent)
         /\ \A i \in 2..Len(splitWindows) :
              /\ splitWindows[i][1] > splitWindows[i - 1][1]
              /\ splitWindows[i][1] <= splitWindows[i - 1][2]
         /\ UNION { Covered(splitWindows[i]) : i \in DOMAIN splitWindows }
              = 0..(Len(splitContent) - 1)

\* a content was returned in three chunks that overlap, the first of them cut
\* short at a line break
C14_Witness ==
    /\ spc = "returned"
    /\ Len(splitContent) > splitConfig.maxChunkSize
    /\ splitConfig.overlapSize > 0
    /\ Len(splitChunks) = 3
    /\ Len(splitChunks[1]) < splitConfig.maxChunkSize
    /\ splitWindows[2][1] < splitWindows[1][2]

----------------------------------------------------------------------------
(* C15 *)

\* String.prototype.slice(n): the chunk without its first n characters
Strip(chunk, n) == SubSeq(chunk, n + 1, Len(chunk))

\* the first chunk followed by each later chunk stripped of its first
\* overlapSize characters
RECURSIVE Reassemble(_, _, _)
Reassemble(chunks, overlapSize, i) ==
    IF i > Len(chunks) THEN << >>
    ELSE (IF i = 1 THEN chunks[i] ELSE Strip(chunks[i], overlapSize))
           \o Reassemble(chunks, overlapSize, i + 1)

\* the number of characters chunk i shares with the chunk before it
AppliedOverlap(chunks, overlapSize, i) ==
    IF overlapSize < Len(chunks[i - 1]) THEN overlapSize ELSE 0

\* the first chunk followed by each later chunk stripped of the characters it
\* shares with the chunk before it
RECURSIVE ReassembleApplied(_, _, _)
ReassembleApplied(chunks, overlapSize, i) ==
    IF i > Len(chunks) THEN << >>
    ELSE (IF i = 1 THEN chunks[i]
          ELSE Strip(chunks[i], AppliedOverlap(chunks, overlapSize, i)))
           \o ReassembleApplied(chunks, overlapSize, i + 1)

\* C15 (as claimed): every chunk after the first begins exactly overlapSize
\* characters before the end of the chunk before it, and the first chunk
\* followed by each later chunk stripped of its first overlapSize characters
\* is the content.
C15_OverlapIsExact ==
    spc = "returned"
      => /\ \A i \in 2..Len(splitWindows) :
              splitWindows[i][1] = splitWindows[i - 1][2] - splitConfig.overlapSize
         /\ Reassemble(splitChunks, splitConfig.overlapSize, 1) = splitContent

\* C15 (amended): every chunk after the first begins exactly overlapSize
\* characters before the end of the chunk before it when that chunk is longer
\* than overlapSize, and exactly at its end otherwise; the first chunk
\* followed by each later chunk stripped of the characters it shares with the
\* chunk before it is the content.
C15_OverlapIsExactWhenShorterThanChunk ==
    spc = "returned"
      => /\ \A i \in 2..Len(splitWindows) :
              splitWindows[i][1]
                = splitWindows[i - 1][2]
                    - AppliedOverlap(splitChunks, splitConfig.overlapSize, i)
         /\ ReassembleApplied(splitChunks, splitConfig.overlapSize, 1) = splitContent

\* a content was returned in three chunks, the first cut short at a line
\* break, each later one beginning overlapSize characters before the end of
\* the chunk before it
C15_Witness ==
    /\ spc = "returned"
    /\ splitConfig.overlapSize = 2
    /\ Len(splitChunks) = 3
    /\ Len(splitChunks[1]) < splitConfig.maxChunkSize
    /\ \A i \in 2..3 : splitWindows[i][1] = splitWindows[i - 1][2] - 2

----------------------------------------------------------------------------
(* utils/chunkedProcessor.ts: processDocumentChunked, await by await        *)
(*                                                                          *)
(* An event is an external call issued, or a call in flight that resolves   *)
(* to a value or rejects.                                                   *)

\* a document of 250,000 characters without a break
Text250k == [name |-> "M", length |-> 250000]

\* a document of 250,000 characters with a line break, a sentence end and a
\* paragraph break near the ends of the first three windows
Text250kBreaks ==
    [name |-> "N", length |-> 250000,
     breaks |-> {[at |-> 49900, kind |-> "newline"],
                 [at |-> 99300, kind |-> "sentence"],
                 [at |-> 148700, kind |-> "paragraph"],
                 [at |-> 148700, kind |-> "newline"],
                 [at |-> 148701, kind |-> "newline"]}]

ChunkedContents == {TextA, TextL, Text250k, Text250kBreaks}

ChunkedConfigs ==
    {DEFAULT_CONFIG,
     [maxChunkSize |-> 50000, sizeThreshold |-> 100000, overlapSize |-> 500,
      maxExtractionChunks |-> 2],
     [maxChunkSize |-> 60000, sizeThreshold |-> 100000, overlapSize |-> 0,
      maxExtractionChunks |-> 0],
     [maxChunkSize |-> 200000, sizeThreshold |-> 100000, overlapSize |-> 500,
      maxExtractionChunks |-> 5]}

ExtractionAddressTenant ==
    [lessor |-> S_unknown, address |-> S_12elm, tenant |-> S_tenant,
     baseReference |-> << >>]

\* what extractKeys can return for a chunk
ChunkExtractions ==
    {ExtractionFull, ExtractionLessorOnly, ExtractionAddressTenant, ExtractionNone}

Issue(call, text) == [kind |-> "issue", call |-> call, text |-> text, value |-> << >>]

Settle(call, text, answer) ==
    [kind |-> IF answer = << >> THEN "reject" ELSE "resolve", call |-> call,
     text |-> text, value |-> answer]

ChunkedInit ==
    /\ chContent \in ChunkedContents
    /\ chConfig \in ChunkedConfigs
    /\ chChunks = << >>
    /\ chEvents = << >>
    /\ chPending = {}
    /\ chClassification = << >>
    /\ chExtractions = << >>
    /\ chResult = << >>
    /\ kpc = "start"

\* the call, up to its first await
ChunkedCall ==
    /\ kpc = "start"
    /\ IF ~needsChunking(chContent, chConfig)
       THEN /\ chEvents' = <<Issue("classify", Whole(chContent)),
                             Issue("extract", Whole(chContent))>>
            /\ chPending' = {"classify", "extract"}
            /\ kpc' = "all"
            /\ UNCHANGED chChunks
       ELSE \E chunks \in {splitIntoChunks(chContent, chConfig)} :
            /\ chChunks' = chunks
            /\ chEvents' = <<Issue("classify", chunks[1])>>
            /\ chPending' = {"classify"}
            /\ kpc' = "classify"
    /\ UNCHANGED <<chContent, chConfig, chClassification, chExtractions, chResult,
                   gvars, cvars, pvars, rvars, svars, mvars, qvars, dvars, wvars>>

\* one of the two calls of Promise.all settles
AllSettles ==
    /\ kpc = "all"
    /\ \E call \in chPending :
       \E answer \in IF call = "classify" THEN Answers(Classifications)
                     ELSE Answers(ChunkExtractions) :
         /\ chEvents' = Append(chEvents, Settle(call, Whole(chContent), answer))
         /\ chPending' = chPending \ {call}
         /\ chClassification' = IF call = "classify" THEN answer ELSE chClassification
         /\ chExtractions' = IF call = "extract" THEN answer ELSE chExtractions
         /\ IF answer = << >>
            THEN kpc' = "threw" /\ UNCHANGED chResult
            ELSE IF chPending = {call}
            THEN /\ kpc' = "returned"
                 /\ chResult' =
                      <<[classification |-> chClassification'[1],
                         extraction |-> chExtractions'[1],
                         chunkingInfo |->
                             [wasChunked |-> FALSE, totalChunks |-> 1,
                              chunksProcessed |-> 1,
                              originalSize |-> chContent.length]]>>
            ELSE UNCHANGED <<kpc, chResult>>
    /\ UNCHANGED <<chContent, chConfig, chChunks, gvars, cvars, pvars, rvars, svars, mvars, qvars, dvars, wvars>>

\* `await classifyDocument(classificationChunk)` settles; the extraction loop
\* begins
ClassifySettles ==
    /\ kpc = "classify"
    /\ \E answer \in Answers(Classifications) :
         /\ chPending' = IF answer = << >> \/ ChunksToProcess(chChunks, chConfig) <= 0
                         THEN {} ELSE {"extract"}
         /\ chClassification' = answer
         /\ IF answer = << >>
            THEN /\ kpc' = "threw"
                 /\ chEvents' = Append(chEvents, Settle("classify", chChunks[1], answer))
                 /\ UNCHANGED chResult
            ELSE IF ChunksToProcess(chChunks, chConfig) <= 0
            THEN /\ kpc' = "returned"
                 /\ chEvents' = Append(chEvents, Settle("classify", chChunks[1], answer))
                 /\ chResult' =
                      <<[classification |-> answer[1],
                         extraction |-> mergeExtractionResults(<< >>),
                         chunkingInfo |->
                             [wasChunked |-> TRUE, totalChunks |-> Len(chChunks),
                              chunksProcessed |-> 0,
                              originalSize |-> chContent.length]]>>
            ELSE /\ kpc' = "extract"
                 /\ chEvents' = chEvents \o <<Settle("classify", chChunks[1], answer),
                                              Issue("extract", chChunks[1])>>
                 /\ UNCHANGED chResult
    /\ UNCHANGED <<chContent, chConfig, chChunks, chExtractions,
                   gvars, cvars, pvars, rvars, svars, mvars, qvars, dvars, wvars>>

\* `await extractKeys(chunks[i])` settles: the rest of the iteration, and the
\* next iteration up to its await or the return
ExtractSettles ==
    /\ kpc = "extract"
    /\ \E answer \in Answers(ChunkExtractions) :
         LET i == Len(chExtractions) + 1
             now == IF answer = << >> THEN chExtractions
                    ELSE Append(chExtractions, answer[1])
         IN  /\ chExtractions' = now
             /\ IF answer = << >>
                THEN /\ kpc' = "threw"
                     /\ chPending' = {}
                     /\ chEvents' = Append(chEvents, Settle("extract", chChunks[i], answer))
                     /\ UNCHANGED chResult
                ELSE IF \/ Resolved(mergeExtractionResults(now))
                        \/ i + 1 > ChunksToProcess(chChunks, chConfig)
                THEN /\ kpc' = "returned"
                     /\ chPending' = {}
                     /\ chEvents' = Append(chEvents, Settle("extract", chChunks[i], answer))
                     /\ chResult' =
                          <<[classification |-> chClassification[1],
                             extraction |-> mergeExtractionResults(now),
                             chunkingInfo |->
                                 [wasChunked |-> TRUE, totalChunks |-> Len(chChunks),
                                  chunksProcessed |-> Len(now),
                                  originalSize |-> chContent.length]]>>
                ELSE /\ kpc' = "extract"
                     /\ chPending' = {"extract"}
                     /\ chEvents' = chEvents \o <<Settle("extract", chChunks[i], answer),
                                                  Issue("extract", chChunks[i + 1])>>
                     /\ UNCHANGED chResult
    /\ UNCHANGED <<chContent, chConfig, chChunks, chClassification,
                   gvars, cvars, pvars, rvars, svars, mvars, qvars, dvars, wvars>>

ChunkedNext == ChunkedCall \/ AllSettles \/ ClassifySettles \/ ExtractSettles

InitChunked ==
    ChunkedInit /\ GroupInit /\ CacheIdle /\ ProcIdle /\ RunIdle /\ SplitIdle /\ MergeIdle /\ QueryIdle /\ ReadIdle /\ FlowIdle

SpecChunked == InitChunked /\ [][ChunkedNext]_vars

\* the texts the calls of a kind were issued with, in order
IssuedTexts(call) ==
    LET issued == SelectSeq(chEvents, LAMBDA e : e.kind = "issue" /\ e.call = call)
    IN  [k \in DOMAIN issued |-> issued[k].text]

\* the values the extract calls resolved to, in order
ExtractedValues ==
    LET resolved == SelectSeq(chEvents, LAMBDA e : e.kind = "resolve" /\ e.call = "extract")
    IN  [k \in DOMAIN resolved |-> resolved[k].value[1]]

----------------------------------------------------------------------------
(* C16 *)

\* C16: when processDocumentChunked returns for a document that is chunked,
\* it has made exactly one classify call, on chunk 0, and extract calls on
\* chunks 0, 1, 2, ... in order, as many as the first chunk at which the
\* merged lessor, address and tenant are all resolved, or
\* min(totalChunks, maxExtractionChunks) when that comes first;
\* chunksProcessed is the number of extract calls and the extraction returned
\* is the merge of exactly their results.
C16_ChunkedCallPattern ==
    (kpc = "returned" /\ needsChunking(chContent, chConfig))
      => LET chunks == splitIntoChunks(chContent, chConfig)
             values == ExtractedValues
             n == Len(IssuedTexts("extract"))
             limit == Min(Len(chunks), chConfig.maxExtractionChunks)
         IN  /\ IssuedTexts("classify") = <<chunks[1]>>
             /\ chunks[1].from = 0
             /\ IssuedTexts("extract") = [k \in 1..n |-> chunks[k]]
             /\ Len(values) = n
             /\ n <= limit
             /\ \A k \in 1..(n - 1) :
                  ~Resolved(mergeExtractionResults(SubSeq(values, 1, k)))
             /\ n < limit => Resolved(mergeExtractionResults(values))
             /\ chResult[1].chunkingInfo.wasChunked
             /\ chResult[1].chunkingInfo.totalChunks = Len(chunks)
             /\ chResult[1].chunkingInfo.chunksProcessed = n
             /\ chResult[1].extraction = mergeExtractionResults(values)

\* a document of six chunks was returned after two extract calls, the limit
\* being five: the lessor came from chunk 0, address and tenant from chunk 1
C16_Witness ==
    /\ kpc = "returned"
    /\ Len(chChunks) = 6
    /\ chConfig.maxExtractionChunks = 5
    /\ Len(IssuedTexts("extract")) = 2
    /\ chExtractions = <<ExtractionLessorOnly, ExtractionAddressTenant>>
    /\ chResult[1].chunkingInfo.chunksProcessed = 2
    /\ Resolved(chResult[1].extraction)

----------------------------------------------------------------------------
(* C17 *)

\* event j is earlier than event i and issues a call of the kind
IssuedBefore(call, i) ==
    \E j \in 1..(i - 1) : chEvents[j].kind = "issue" /\ chEvents[j].call = call

\* C17: classification and extraction are in flight concurrently: for an
\* unchunked document both calls are issued before either settles, and for a
\* chunked document the first extract call is issued before the
\* classification of chunk 0 settles.
C17_ClassifyAndExtractOverlap ==
    \A i \in DOMAIN chEvents :
        /\ (~needsChunking(chContent, chConfig) /\ chEvents[i].kind # "issue")
             => IssuedBefore("classify", i) /\ IssuedBefore("extract", i)
        /\ (/\ needsChunking(chContent, chConfig)
            /\ chEvents[i].kind # "issue"
            /\ chEvents[i].call = "classify")
             => IssuedBefore("extract", i)

----------------------------------------------------------------------------
(* C18 *)

\* the sizeThreshold of the chunk configuration in effect: the one of the
\* chunkConfig argument, or the default when the argument gives none
ThresholdInEffect(chunkConfig) ==
    IF chunkConfig # << >> /\ "sizeThreshold" \in DOMAIN chunkConfig[1]
    THEN chunkConfig[1].sizeThreshold
    ELSE DEFAULT_CONFIG.sizeThreshold

\* the result says the document was processed in chunks
WasChunked(result) ==
    /\ result.chunkingInfo # << >>
    /\ result.chunkingInfo[1].wasChunked

\* C18: a processDocument call that is not served from the cache processes
\* the document in chunks (chunkingInfo.wasChunked = true) exactly when the
\* content length exceeds the sizeThreshold of the chunk configuration in
\* effect; otherwise it calls classify and extract exactly once each, on the
\* full text.
C18_ChunksExactlyAboveThreshold ==
    [][ calls' # calls =>
          LET call == calls'[Len(calls')]
              threshold == ThresholdInEffect(chunkConfigArg')
          IN  (~call.threw /\ ~call.result[1].fromCache)
                => /\ WasChunked(call.result[1]) <=> call.content.length > threshold
                   /\ call.content.length <= threshold
                        => /\ classifyCalls' = Append(classifyCalls, Whole(call.content))
                           /\ extractCalls' = Append(extractCalls, Whole(call.content))
      ]_vars

----------------------------------------------------------------------------
(* C19 *)

\* a document of 250,000 characters was processed under the default
\* configuration, and the call has returned
Returned250k ==
    /\ kpc = "returned"
    /\ chContent.length = 250000
    /\ chConfig = DEFAULT_CONFIG

\* C19 (as claimed): a document of 250,000 characters processed under the
\* default configuration is split into exactly 5 chunks: totalChunks = 5.
C19_FiveChunks ==
    Returned250k => chResult[1].chunkingInfo.totalChunks = 5

\* C19 (amended): a document of 250,000 characters processed under the
\* default configuration is split into at least 6 chunks, and into exactly 6
\* (windows starting at 0, 49,500, 99,000, 148,500, 198,000 and 247,500) when
\* it has no paragraph break, sentence end or newline.
C19_SixChunks ==
    Returned250k
      => /\ chResult[1].chunkingInfo.wasChunked
         /\ chResult[1].chunkingInfo.totalChunks = Len(chChunks)
         /\ chResult[1].chunkingInfo.totalChunks >= 6
         /\ Breaks(chContent) = {}
              => /\ chResult[1].chunkingInfo.totalChunks = 6
                 /\ [k \in 1..6 |-> chChunks[k].from]
                      = <<0, 49500, 99000, 148500, 198000, 247500>>
                 /\ chChunks[6].to = 250000

\* the document without breaks was returned with totalChunks = 6
C19_Witness ==
    /\ Returned250k
    /\ chContent = Text250k
    /\ chResult[1].chunkingInfo.totalChunks = 6
    /\ chChunks[1] = Slice(Text250k, 0, 50000)

----------------------------------------------------------------------------
(* utils/chunkedProcessor.ts: mergeExtractionResults called on a list       *)

MaxResults == 3

S_ref == <<"r", "e", "f">>
S_ref2 == <<"r", "e", "f", "2">>

\* the extraction results of the chunks: a lessor that is 'unknown', empty or
\* one of two names, an address and a tenant that are 'unknown' or found, and
\* a base reference that goes with the lessor
MergeInputs ==
    { r \in [lessor : {S_unknown, S_empty, S_xy1234, S_y12345},
             address : {S_unknown, S_12elm},
             tenant : {S_unknown, S_tenant},
             baseReference : {<< >>, <<S_ref>>, <<S_ref2>>}] :
        /\ r.baseReference = <<S_ref>> => r.lessor = S_y12345
        /\ r.baseReference = <<S_ref2>> => r.lessor = S_xy1234 }

MergeLists == UNION { [1..n -> MergeInputs] : n \in 0..MaxResults }

MergeInit ==
    /\ mergeResults \in MergeLists
    /\ mergeReturned = << >>

\* mergeExtractionResults(results)
MergeCall ==
    /\ mergeReturned = << >>
    /\ mergeReturned' = <<mergeExtractionResults(mergeResults)>>
    /\ UNCHANGED <<mergeResults, gvars, cvars, pvars, rvars, svars, kvars, qvars, dvars, wvars>>

MergeNext == MergeCall

InitMerge ==
    MergeInit /\ GroupInit /\ CacheIdle /\ ProcIdle /\ RunIdle /\ SplitIdle /\ ChunkedIdle /\ QueryIdle /\ ReadIdle /\ FlowIdle

SpecMerge == InitMerge /\ [][MergeNext]_vars

----------------------------------------------------------------------------
(* C20 *)

\* the value is non-empty and not 'unknown'
Found(value) == value # S_empty /\ value # S_unknown

\* the value of the field in the earliest result in which it is found, or
\* 'unknown' when no result has one
Earliest(results, field) ==
    LET having == { i \in DOMAIN results : Found(results[i][field]) }
    IN  IF having = {} THEN S_unknown
        ELSE results[CHOOSE i \in having : \A k \in having : i <= k][field]

\* C20: mergeExtractionResults returns for every list, independently for each
\* of lessor, address and tenant, the value of the earliest result in which
\* the field is non-empty and not 'unknown', or 'unknown' when no result has
\* one; for the empty list it returns all three 'unknown' and no
\* baseReference.
C20_MergeTakesEarliestFound ==
    mergeReturned # << >>
      => /\ \A field \in {"lessor", "address", "tenant"} :
              mergeReturned[1][field] = Earliest(mergeResults, field)
         /\ mergeResults = << >>
              => mergeReturned[1] = [lessor |-> S_unknown, address |-> S_unknown,
                                     tenant |-> S_unknown, baseReference |-> << >>]

\* a list was merged whose first result has no lessor, whose second and third
\* have different ones, and whose address and tenant come from the first
C20_Witness ==
    /\ mergeReturned # << >>
    /\ Len(mergeResults) = 3
    /\ mergeResults[1].lessor = S_empty
    /\ mergeResults[1].address = S_12elm
    /\ mergeResults[1].tenant = S_tenant
    /\ mergeResults[2].lessor = S_xy1234
    /\ mergeResults[3].lessor = S_y12345
    /\ mergeReturned[1].lessor = S_xy1234
    /\ mergeReturned[1].address = S_12elm

----------------------------------------------------------------------------
(* C21 *)

\* the first n results of the list
Prefix(results, n) == SubSeq(results, 1, n)

\* the prefixes of the merged list whose own merge has lessor, address and
\* tenant resolved
ResolvedPrefixes ==
    { n \in 0..Len(mergeResults) :
        Resolved(mergeExtractionResults(Prefix(mergeResults, n))) }

\* C21: for every list P of extraction results whose merge has lessor,
\* address and tenant all resolved and every list S of further results,
\* mergeExtractionResults(P followed by S) equals mergeExtractionResults(P) in
\* all four fields.
C21_ResolvedPrefixDecides ==
    mergeReturned # << >>
      => \A n \in ResolvedPrefixes :
            \A field \in {"lessor", "address", "tenant", "baseReference"} :
                mergeReturned[1][field]
                  = mergeExtractionResults(Prefix(mergeResults, n))[field]

\* a list was merged whose first result resolves all three fields without a
\* base reference and whose later results carry other values and a base
\* reference
C21_Witness ==
    /\ mergeReturned # << >>
    /\ Len(mergeResults) = 3
    /\ 1 \in ResolvedPrefixes
    /\ mergeResults[1].baseReference = << >>
    /\ mergeResults[1].lessor = S_xy1234
    /\ mergeResults[2].lessor = S_y12345
    /\ mergeResults[2].baseReference = <<S_ref>>
    /\ mergeReturned[1].lessor = S_xy1234
    /\ mergeReturned[1].baseReference = << >>

----------------------------------------------------------------------------
(* C22 *)

\* what a step of organizeDocuments does to the loop: a document is started
\* only while no other is in progress and no delay is awaited, the documents
\* are taken in the order of the folder, and the delay follows exactly a
\* document that was processed, not cached, and is not the last
CooldownStep ==
    /\ outcomes' # outcomes
         => /\ rpc = "loop"
            /\ Len(outcomes') = Len(outcomes) + 1
            /\ SubSeq(outcomes', 1, Len(outcomes)) = outcomes
            /\ outcomes'[Len(outcomes')] # "failed"
                 => /\ processedDocs'
                         = Append(processedDocs, processedDocs'[Len(outcomes')])
                    /\ processedDocs'[Len(outcomes')].id
                         = readResult[Len(outcomes')].id
                    /\ rpc' = "sleep"
                         <=> /\ outcomes'[Len(outcomes')] = "processed"
                             /\ Len(outcomes') < Len(readResult)
    /\ rpc = "sleep" => outcomes' = outcomes /\ sleeps' = sleeps + 1 /\ rpc' = "loop"
    /\ sleeps' # sleeps => rpc = "sleep"

\* C22: in organizeDocuments documents are processed strictly one after
\* another, and after document i has been processed a cooldown delay is
\* inserted before document i+1 starts if and only if document i was not
\* served from the cache and document i is not the last document of the batch.
C22_CooldownBetweenDocuments == [][CooldownStep]_vars

\* a run of two documents returned: the first was processed and followed by
\* the only delay, the second was not followed by one
C22_Witness ==
    /\ rpc = "returned"
    /\ Len(readResult) = 2
    /\ outcomes = <<"processed", "processed">>
    /\ sleeps = 1

----------------------------------------------------------------------------
(* utils/leaseQuery.ts as a state machine: the callers save and load the     *)
(* snapshot file, and one LeaseQuery session is constructed, reloaded and    *)
(* read                                                                      *)

MaxQueryOps == 4

\* a processed document as organizeDocuments passes it on: with its content,
\* a tenant and a base reference that may be undefined
QueryDoc(i, documentType, lessor, address, baseReference) ==
    [id |-> Files[i].id, filename |-> Files[i].filename,
     classification |-> [documentType |-> documentType],
     extraction |-> [lessor |-> lessor, address |-> address, tenant |-> S_tenant,
                     baseReference |-> baseReference],
     content |-> TextA]

\* the batches whose grouping results are saved: a lease and its amendment;
\* two lessors, the later one an array-index key, and an ungrouped document;
\* and the empty batch
QueryBatches ==
    { <<QueryDoc(1, "lease", S_xy1234, S_12elm, << >>),
        QueryDoc(3, "amendment", S_xy1234, S_12elm, <<S_y12345>>)>>,
      <<QueryDoc(1, "other", S_unknown, S_12elm, << >>),
        QueryDoc(3, "lease", S_xy1234, S_12elm, << >>),
        QueryDoc(4, "lease", S_123456, S_12elms, << >>)>>,
      << >> }

Snapshots == { groupDocuments(batch, << >>).result : batch \in QueryBatches }

\* {"ungrouped": []}: a JSON object that is not a grouping result
FileNoGrouped == [kind |-> "object", value |-> [ungrouped |-> << >>]]

\* what the snapshot file can hold when the first call is made
QueryFiles ==
    { [kind |-> "missing"], [kind |-> "unreadable"], [kind |-> "unparsable"],
      [kind |-> "null"], FileNoGrouped }
    \cup { saveGroupingResult(groupDocuments(<< >>, << >>).result,
                               [kind |-> "missing"], "written").file }

WriteOutcomes == {"written", "refused", "truncated"}

QueryLessors == {S_xy1234, S_12345z, S_constructor}

QueryAddresses == {S_12elm, S_constructor}

QueryIds == {"a", "b", "zz"}

\* the lookups made on the session
Lookups ==
    { [op |-> "getAddresses", args |-> <<l>>] : l \in QueryLessors }
    \cup { [op |-> o, args |-> <<l, a>>] :
             o \in {"getLeaseDetails", "getAmendments", "getCommencements",
                    "getDeliveries", "getBaseLease", "getRelatedDocuments"},
             l \in QueryLessors, a \in QueryAddresses }
    \cup { [op |-> "findDocumentById", args |-> <<id>>] : id \in QueryIds }
    \cup { [op |-> o, args |-> <<q>>] :
             o \in {"searchByLessor", "searchByAddress"},
             q \in {S_XY1234, S_12345z} }

\* the method call on this.result = result
Lookup(call, result, ctor) ==
    CASE call.op = "getAddresses" -> getAddresses(result, ctor, call.args[1])
      [] call.op = "getLeaseDetails" ->
             getLeaseDetails(result, ctor, call.args[1], call.args[2])
      [] call.op = "getAmendments" ->
             getAmendments(result, ctor, call.args[1], call.args[2])
      [] call.op = "getCommencements" ->
             getCommencements(result, ctor, call.args[1], call.args[2])
      [] call.op = "getDeliveries" ->
             getDeliveries(result, ctor, call.args[1], call.args[2])
      [] call.op = "getBaseLease" ->
             getBaseLease(result, ctor, call.args[1], call.args[2])
      [] call.op = "getRelatedDocuments" ->
             getRelatedDocuments(result, ctor, call.args[1], call.args[2])
      [] call.op = "findDocumentById" -> findDocumentById(result, call.args[1])
      [] call.op = "searchByLessor" -> SearchBy(result, "lessor", call.args[1])
      [] call.op = "searchByAddress" -> SearchBy(result, "address", call.args[1])

QueryInit ==
    /\ groupingFile \in QueryFiles
    /\ session = << >>
    /\ loadedFile = << >>
    /\ lastSaved = << >>
    /\ lastOp = << >>
    /\ queryOps = 0
    /\ readResult = << >>
    /\ processedDocs = << >>
    /\ outcomes = << >>
    /\ sleeps = 0
    /\ runResult = << >>
    /\ snapshotWrites = 0
    /\ rpc = "start"

\* saveGroupingResult(result)
QuerySave ==
    /\ queryOps < MaxQueryOps
    /\ \E result \in Snapshots, outcome \in WriteOutcomes :
         \E r \in {saveGroupingResult(result, groupingFile, outcome)} :
           /\ groupingFile' = r.file
           /\ snapshotWrites' = IF r.threw THEN snapshotWrites ELSE snapshotWrites + 1
           /\ lastSaved' = <<[result |-> result, threw |-> r.threw]>>
           /\ lastOp' = <<[op |-> "saveGroupingResult", args |-> << >>,
                           threw |-> r.threw, returned |-> Null]>>
    /\ queryOps' = queryOps + 1
    /\ UNCHANGED <<session, loadedFile, readResult, processedDocs, outcomes, sleeps,
                   runResult, rpc, gvars, cvars, pvars, svars, kvars, mvars, dvars, wvars>>

\* loadGroupingResult()
QueryLoad ==
    /\ queryOps < MaxQueryOps
    /\ \E loaded \in {loadGroupingResult(groupingFile)} :
         lastOp' = <<[op |-> "loadGroupingResult", args |-> << >>, threw |-> FALSE,
                      returned |-> IF loaded = << >> THEN Null
                                   ELSE [kind |-> "result", value |-> loaded[1]]]>>
    /\ queryOps' = queryOps + 1
    /\ UNCHANGED <<session, loadedFile, lastSaved, rvars, gvars, cvars, pvars, svars,
                   kvars, mvars, dvars, wvars>>

\* new LeaseQuery()
QueryConstruct ==
    /\ queryOps < MaxQueryOps
    /\ session = << >>
    /\ \E r \in {LeaseQueryNew(groupingFile)} :
         /\ session' = r.result
         /\ loadedFile' = IF r.threw THEN loadedFile ELSE <<groupingFile>>
         /\ lastOp' = <<[op |-> "new LeaseQuery", args |-> << >>, threw |-> r.threw,
                         returned |-> Null]>>
    /\ queryOps' = queryOps + 1
    /\ UNCHANGED <<lastSaved, rvars, gvars, cvars, pvars, svars, kvars, mvars, dvars, wvars>>

\* query.reload()
QueryReload ==
    /\ queryOps < MaxQueryOps
    /\ session # << >>
    /\ \E r \in {LeaseQueryReload(session, groupingFile)} :
         /\ session' = r.result
         /\ loadedFile' = IF r.threw THEN loadedFile ELSE <<groupingFile>>
         /\ lastOp' = <<[op |-> "reload", args |-> << >>, threw |-> r.threw,
                         returned |-> Null]>>
    /\ queryOps' = queryOps + 1
    /\ UNCHANGED <<lastSaved, rvars, gvars, cvars, pvars, svars, kvars, mvars, dvars, wvars>>

\* one of the lookups of the session
QueryRead ==
    /\ session # << >>
    /\ \E call \in Lookups :
         \E r \in {Lookup(call, session[1], objectCtor)} :
           lastOp' = <<[op |-> call.op, args |-> call.args, threw |-> r.threw,
                        returned |-> r.returned]>>
    /\ UNCHANGED <<session, loadedFile, lastSaved, queryOps, rvars, gvars, cvars,
                   pvars, svars, kvars, mvars, dvars, wvars>>

QueryNext == QuerySave \/ QueryLoad \/ QueryConstruct \/ QueryReload \/ QueryRead

InitQuery ==
    QueryInit /\ GroupInit /\ CacheIdle /\ ProcIdle /\ SplitIdle /\ ChunkedIdle /\ MergeIdle /\ ReadIdle /\ FlowIdle

SpecQuery == InitQuery /\ [][QueryNext]_vars

----------------------------------------------------------------------------
(* C23 *)

LessorLookups ==
    {"getLeaseDetails", "getAmendments", "getCommencements", "getDeliveries",
     "getBaseLease", "getRelatedDocuments"}

\* the documents a snapshot holds, grouped or not
HeldDocuments(result) ==
    (IF "grouped" \in DOMAIN result
     THEN UNION { UNION { Range(result.grouped[i].val[j].val.documents) :
                            j \in DOMAIN result.grouped[i].val } :
                    i \in DOMAIN result.grouped }
     ELSE {})
    \cup (IF "ungrouped" \in DOMAIN result THEN Range(result.ungrouped) ELSE {})

\* the (lessor, address) pairs of the bundles of a snapshot
HeldBundles(result) ==
    IF "grouped" \notin DOMAIN result THEN {}
    ELSE UNION { { <<result.grouped[i].key, result.grouped[i].val[j].key>> :
                     j \in DOMAIN result.grouped[i].val } : i \in DOMAIN result.grouped }

\* the call asks for a lessor, an address or a document id that the snapshot
\* of the session does not hold
AsksForUnknown(call, result) ==
    CASE call.op = "getAddresses" ->
           call.args[1] \notin { b[1] : b \in HeldBundles(result) }
      [] call.op \in LessorLookups ->
           <<call.args[1], call.args[2]>> \notin HeldBundles(result)
      [] call.op = "findDocumentById" ->
           call.args[1] \notin { d.id : d \in HeldDocuments(result) }
      [] call.op = "searchByLessor" ->
           \A b \in HeldBundles(result) :
              ~Includes(toLowerCase(b[1]), toLowerCase(call.args[1]))
      [] call.op = "searchByAddress" ->
           \A b \in HeldBundles(result) :
              ~Includes(toLowerCase(b[2]), toLowerCase(call.args[1]))
      [] OTHER -> FALSE

\* C23: constructing a LeaseQuery session when no snapshot can be loaded
\* raises an error, whereas on a constructed session every lookup for an
\* unknown lessor, address or document id (getAddresses, getLeaseDetails,
\* getAmendments, getCommencements, getDeliveries, getBaseLease,
\* getRelatedDocuments, findDocumentById, searches) returns an empty list or
\* null and never raises.
C23_UnknownLookupsReturnEmpty ==
    lastOp # << >>
      => /\ lastOp[1].op = "new LeaseQuery"
              => (lastOp[1].threw <=> loadGroupingResult(groupingFile) = << >>)
         /\ (session # << >> /\ AsksForUnknown(lastOp[1], session[1]))
              => /\ ~lastOp[1].threw
                 /\ lastOp[1].returned \in {Null, List(<< >>)}

----------------------------------------------------------------------------
(* C24 *)

\* C24: a failure to read or to write the grouping snapshot is never fatal to
\* the caller: loadGroupingResult returns null on a read or parse failure, and
\* saveGroupingResult returns normally, without raising, on a write failure.
C24_SnapshotIONeverFatal ==
    lastOp # << >>
      => /\ lastOp[1].op = "loadGroupingResult"
              => /\ ~lastOp[1].threw
                 /\ groupingFile.kind \in {"unreadable", "unparsable"}
                      => lastOp[1].returned = Null
         /\ lastOp[1].op = "saveGroupingResult" => ~lastOp[1].threw

----------------------------------------------------------------------------
(* C25 *)

\* two results are structurally identical: the same properties with a defined
\* value, with the same values, in the same order of enumeration
SameStructure(a, b) == ResultJSON(a) = ResultJSON(b)

\* C25: after any sequence of saveGroupingResult calls on a file (the most
\* recent of which returned), loadGroupingResult returns a result structurally
\* identical to the argument of the most recent save (hierarchy with full
\* document content, ungrouped list, stats), with nothing retained or merged
\* from earlier saves; before any save, with no file yet, it returns null.
C25_LoadReturnsLastSaved ==
    (lastOp # << >> /\ lastOp[1].op = "loadGroupingResult")
      => /\ (lastSaved # << >> /\ ~lastSaved[1].threw)
              => /\ lastOp[1].returned # Null
                 /\ SameStructure(lastOp[1].returned.value, lastSaved[1].result)
         /\ (lastSaved = << >> /\ groupingFile.kind = "missing")
              => lastOp[1].returned = Null

\* a second snapshot, of two lessors and an ungrouped document, was saved over
\* a first one and then loaded
C25_Witness ==
    /\ lastOp # << >>
    /\ lastOp[1].op = "loadGroupingResult"
    /\ snapshotWrites = 2
    /\ lastSaved # << >>
    /\ ~lastSaved[1].threw
    /\ Len(lastSaved[1].result.grouped) = 2
    /\ lastSaved[1].result.grouped # lastOp[1].returned.value.grouped
    /\ Len(lastOp[1].returned.value.ungrouped) = 1
    /\ lastOp[1].returned.value.ungrouped[1].content = TextA

----------------------------------------------------------------------------
(* C26 *)

ReadOps ==
    {"getAddresses", "findDocumentById", "searchByLessor", "searchByAddress"}
        \cup LessorLookups

\* what a step does to the session and to the file.  The call made by the
\* step is the one in lastOp'.
SessionStep ==
    \* the session holds what it loaded when it last loaded successfully
    /\ session' # << >> => session' = loadGroupingResult(loadedFile'[1])
    \* it loads at its construction and at a reload that succeeds, from the
    \* file as it is then
    /\ loadedFile' # loadedFile
         => /\ lastOp'[1].op \in {"new LeaseQuery", "reload"}
            /\ ~lastOp'[1].threw
    /\ (lastOp' # << >> /\ lastOp'[1].op \in {"new LeaseQuery", "reload"}
          /\ ~lastOp'[1].threw /\ queryOps' # queryOps)
         => loadedFile' = <<groupingFile>>
    \* a save is not seen by the session
    /\ groupingFile' # groupingFile
         => /\ lastOp'[1].op = "saveGroupingResult"
            /\ session' = session
    \* every read is answered from the snapshot loaded
    /\ (lastOp' # << >> /\ lastOp'[1].op \in ReadOps)
         => \E r \in {Lookup([op |-> lastOp'[1].op, args |-> lastOp'[1].args],
                             loadGroupingResult(loadedFile'[1])[1], objectCtor)} :
               /\ lastOp'[1].threw = r.threw
               /\ lastOp'[1].returned = r.returned

\* C26: a LeaseQuery session answers every read from the snapshot it loaded at
\* construction or at its most recent successful reload(): a snapshot saved
\* after that is not visible to the session until reload() is called, after
\* which all reads reflect the newly saved snapshot; no read operation and no
\* reload() changes the persisted snapshot.
C26_ReadsFromLoadedSnapshot == [][SessionStep]_vars

\* a session constructed on the snapshot of the empty batch is asked for the
\* addresses of a lessor that a snapshot saved since then holds, and answers
\* with none
C26_Witness ==
    /\ session # << >>
    /\ session[1] = ResultJSON(groupDocuments(<< >>, << >>).result)
    /\ groupingFile.kind = "object"
    /\ loadedFile # <<groupingFile>>
    /\ "grouped" \in DOMAIN groupingFile.value
    /\ HasOwn(groupingFile.value.grouped, S_xy1234)
    /\ lastOp # << >>
    /\ lastOp[1].op = "getAddresses"
    /\ lastOp[1].args = <<S_xy1234>>
    /\ lastOp[1].returned = List(<< >>)

----------------------------------------------------------------------------
(* groupDocuments, saveGroupingResult and a LeaseQuery session in a row:     *)
(* the snapshots that grouping produces, read back through the lookups      *)

MaxLookupDocs == 2

\* what classification and extraction say about a document of the folder:
\* every type at one lessor and address, and a lease of another lessor
LookupFindings ==
    { [documentType |-> t, lessor |-> S_xy1234, address |-> S_12elm] :
        t \in DocumentTypes }
    \cup { [documentType |-> "lease", lessor |-> S_12345z, address |-> S_12elm] }

\* the batches: files of the folder in the order of Files, each with a finding
RECURSIVE LookupBatchesOf(_)
LookupBatchesOf(n) ==
    IF n = 0 THEN { << >> }
    ELSE LET shorter == LookupBatchesOf(n - 1)
         IN  shorter \cup
             { Append(b, MakeDoc(Files[i], f)) :
                 b \in { s \in shorter : Len(s) = n - 1 },
                 i \in DOMAIN Files, f \in LookupFindings }

LookupBatches ==
    { b \in LookupBatchesOf(MaxLookupDocs) :
        \A k \in 1..(Len(b) - 1) :
            \E i, j \in DOMAIN Files :
                /\ i < j
                /\ Files[i].filename = b[k].filename
                /\ Files[j].filename = b[k + 1].filename }

LookupInit ==
    /\ groupingFile = [kind |-> "missing"]
    /\ session = << >>
    /\ loadedFile = << >>
    /\ lastSaved = << >>
    /\ lastOp = << >>
    /\ queryOps = 0
    /\ readResult = << >>
    /\ processedDocs = << >>
    /\ outcomes = << >>
    /\ sleeps = 0
    /\ runResult = << >>
    /\ snapshotWrites = 0
    /\ rpc = "start"

\* groupDocuments(batch)
LookupGroup ==
    /\ gpc = "loop"
    /\ \E batch \in LookupBatches :
         \E g \in {groupDocuments(batch, objectCtor)} :
           /\ documents' = batch
           /\ grouped' = g.result.grouped
           /\ ungrouped' = g.result.ungrouped
           /\ stats' = <<g.result.stats>>
           /\ objectCtor' = g.objectCtor
           /\ gpc' = IF g.threw THEN "threw" ELSE "returned"
    /\ UNCHANGED <<cvars, pvars, rvars, svars, kvars, mvars, qvars, dvars, wvars>>

\* saveGroupingResult(result) with the result of groupDocuments
LookupSave ==
    /\ gpc = "returned"
    /\ lastSaved = << >>
    /\ \E result \in {[grouped |-> grouped, ungrouped |-> ungrouped, stats |-> stats[1]]} :
         \E r \in {saveGroupingResult(result, groupingFile, "written")} :
           /\ groupingFile' = r.file
           /\ snapshotWrites' = snapshotWrites + 1
           /\ lastSaved' = <<[result |-> result, threw |-> r.threw]>>
           /\ lastOp' = <<[op |-> "saveGroupingResult", args |-> << >>,
                           threw |-> r.threw, returned |-> Null]>>
    /\ queryOps' = queryOps + 1
    /\ UNCHANGED <<session, loadedFile, readResult, processedDocs, outcomes, sleeps,
                   runResult, rpc, gvars, cvars, pvars, svars, kvars, mvars, dvars, wvars>>

\* the typed lookups for a bundle of the snapshot held
LookupRead ==
    /\ session # << >>
    /\ \E bundle \in HeldBundles(session[1]) :
         \E op \in {"getAmendments", "getCommencements", "getDeliveries", "getBaseLease"} :
         \E r \in {Lookup([op |-> op, args |-> bundle], session[1], objectCtor)} :
           lastOp' = <<[op |-> op, args |-> bundle, threw |-> r.threw,
                        returned |-> r.returned]>>
    /\ UNCHANGED <<session, loadedFile, lastSaved, queryOps, rvars, gvars, cvars,
                   pvars, svars, kvars, mvars, dvars, wvars>>

LookupNext == LookupGroup \/ LookupSave \/ QueryConstruct \/ LookupRead

InitLookup ==
    LookupInit /\ GroupInit /\ CacheIdle /\ ProcIdle /\ SplitIdle /\ ChunkedIdle /\ MergeIdle /\ ReadIdle /\ FlowIdle

SpecLookup == InitLookup /\ [][LookupNext]_vars

----------------------------------------------------------------------------
(* C27 *)

\* the documents of the bundle that have the type, in the order of the input
OfType(bundle, documentType) ==
    SelectSeq(bundle.documents, LAMBDA d : d.classification.documentType = documentType)

TypeOfLookup ==
    [getAmendments |-> "amendment", getCommencements |-> "rent_commencement",
     getDeliveries |-> "delivery_letter"]

\* C27: for every snapshot produced by groupDocuments from any batch and every
\* (lessor, address) bundle in it, getAmendments, getCommencements and
\* getDeliveries return exactly the documents of that bundle classified as
\* amendment, rent_commencement and delivery_letter respectively, in input
\* order, and getBaseLease returns the first lease-typed document of the
\* bundle (null when there is none).
C27_TypedListsMatchClassification ==
    (/\ session # << >>
     /\ lastOp # << >>
     /\ lastOp[1].op \in {"getAmendments", "getCommencements", "getDeliveries",
                          "getBaseLease"}
     /\ <<lastOp[1].args[1], lastOp[1].args[2]>> \in HeldBundles(session[1]))
    => LET bundle == OwnValue(OwnValue(session[1].grouped, lastOp[1].args[1]),
                              lastOp[1].args[2])
       IN  /\ ~lastOp[1].threw
           /\ lastOp[1].op \in DOMAIN TypeOfLookup
                => lastOp[1].returned
                     = List(OfType(bundle, TypeOfLookup[lastOp[1].op]))
           /\ lastOp[1].op = "getBaseLease"
                => lastOp[1].returned
                     = IF OfType(bundle, "lease") = << >> THEN Null
                       ELSE [kind |-> "document",
                             document |-> OfType(bundle, "lease")[1]]

----------------------------------------------------------------------------
(* C28 *)

\* the file the cache was constructed from
LoadedCacheFile == opLog[1].file

\* the file is an envelope whose version is not the current one
OtherVersion(file) == IsObjectFile(file) /\ file.version # <<CACHE_VERSION>>

\* C28: loading a persisted cache envelope whose version differs from the
\* current cache version yields a cache with zero entries: get returns null
\* for every content, including content that has an entry in the file, and no
\* migration of the old entries is attempted.
C28_OtherVersionStartsEmpty ==
    (/\ opLog # << >>
     /\ Len(opLog) = 1
     /\ OtherVersion(LoadedCacheFile))
    => /\ cache = <<FreshCache>>
       /\ lastGet # << >> => ~lastGet[1].threw /\ lastGet[1].value = << >>
       /\ (lastCall # << >> /\ lastCall[1].op = "stats")
            => ~lastCall[1].threw /\ lastCall[1].entries = 0

\* a cache constructed from a version-2 envelope that holds an entry for a
\* content was asked for that content and returned null
C28_Witness ==
    /\ opLog # << >>
    /\ Len(opLog) = 1
    /\ LoadedCacheFile = FileOtherVersion
    /\ hashContent(TextA) \in DOMAIN FileOtherVersion.entries[1]
    /\ lastGet # << >>
    /\ lastGet[1].content = TextA
    /\ lastGet[1].value = << >>

----------------------------------------------------------------------------
(* C29 *)

\* C29: every chunk returned by splitIntoChunks has length at most
\* maxChunkSize, for every content and overlapSize; when the content length is
\* at most maxChunkSize the result is the single chunk equal to the whole
\* content.
C29_ChunksWithinMaxChunkSize ==
    /\ \A i \in DOMAIN splitChunks : Len(splitChunks[i]) <= splitConfig.maxChunkSize
    /\ (spc = "returned" /\ Len(splitContent) <= splitConfig.maxChunkSize)
         => splitChunks = <<splitContent>>

\* a content longer than maxChunkSize was returned in three chunks or more
\* with an overlap, one chunk cut at a break point and another of full length
C29_Witness ==
    /\ spc = "returned"
    /\ Len(splitContent) > splitConfig.maxChunkSize
    /\ splitConfig.overlapSize > 0
    /\ Len(splitChunks) >= 3
    /\ \E i \in DOMAIN splitChunks : Len(splitChunks[i]) = splitConfig.maxChunkSize
    /\ \E i \in 1..(Len(splitChunks) - 1) :
         Len(splitChunks[i]) < splitConfig.maxChunkSize

----------------------------------------------------------------------------
(* tools/readFiles.ts: readDocsTool.execute, from the reads it issues to the *)
(* sorted list it returns                                                    *)

MaxReadFiles == 3

\* The files a folder may hold.  rank is the place of the filename in the
\* order of String.prototype.localeCompare: two names that are canonically
\* equivalent (here the same name with a precomposed and with a combining
\* accent) compare as equal and have the same rank.
DirEntries ==
    { [filename |-> "a.md", rank |-> 1],
      [filename |-> "a.txt", rank |-> 2],
      [filename |-> "cafe(U+0301).txt", rank |-> 3],
      [filename |-> "caf(U+00E9).txt", rank |-> 3] }

\* a.filename.localeCompare(b.filename): negative, zero or positive
localeCompare(a, b) == a.rank - b.rank

\* what readdir and the extension filter leave: distinct files in the order
\* of the directory
ReadFolders ==
    { f \in UNION { [1..n -> DirEntries] : n \in 0..MaxReadFiles } :
        \A i, j \in DOMAIN f : i # j => f[i] # f[j] }

\* the place a stable sort gives a new last element: behind every element
\* that does not compare greater
RECURSIVE InsertSorted(_, _)
InsertSorted(sorted, doc) ==
    IF sorted = << >> THEN <<doc>>
    ELSE IF localeCompare(sorted[Len(sorted)], doc) <= 0 THEN Append(sorted, doc)
    ELSE Append(InsertSorted(SubSeq(sorted, 1, Len(sorted) - 1), doc),
                sorted[Len(sorted)])

\* documents.sort((a, b) => a.filename.localeCompare(b.filename)); the sort of
\* Array.prototype.sort is stable
RECURSIVE SortByFilename(_)
SortByFilename(docs) ==
    IF docs = << >> THEN << >>
    ELSE InsertSorted(SortByFilename(SubSeq(docs, 1, Len(docs) - 1)), docs[Len(docs)])

ReadInit ==
    /\ readFolder \in ReadFolders
    /\ readPending = {}
    /\ readDocuments = << >>
    /\ readErrors = << >>
    /\ readReturned = << >>
    /\ dpc = "start"

\* Promise.all(matchingFiles.map(async ...)): every readFile is issued before
\* any of them settles
ReadStart ==
    /\ dpc = "start"
    /\ readPending' = DOMAIN readFolder
    /\ dpc' = "reading"
    /\ UNCHANGED <<readFolder, readDocuments, readErrors, readReturned,
                   gvars, cvars, pvars, rvars, svars, kvars, mvars, qvars, wvars>>

\* one readFile settles: the document is pushed, or the error is
ReadSettle ==
    /\ dpc = "reading"
    /\ \E i \in readPending, ok \in BOOLEAN :
         /\ readPending' = readPending \ {i}
         /\ IF ok
            THEN /\ readDocuments' = Append(readDocuments, readFolder[i])
                 /\ UNCHANGED readErrors
            ELSE /\ readErrors' = Append(readErrors, readFolder[i])
                 /\ UNCHANGED readDocuments
    /\ UNCHANGED <<readFolder, readReturned, dpc,
                   gvars, cvars, pvars, rvars, svars, kvars, mvars, qvars, wvars>>

\* after Promise.all: the documents are sorted in place and returned
ReadReturn ==
    /\ dpc = "reading"
    /\ readPending = {}
    /\ readDocuments' = SortByFilename(readDocuments)
    /\ readReturned' = <<SortByFilename(readDocuments)>>
    /\ dpc' = "returned"
    /\ UNCHANGED <<readFolder, readPending, readErrors,
                   gvars, cvars, pvars, rvars, svars, kvars, mvars, qvars, wvars>>

ReadNext == ReadStart \/ ReadSettle \/ ReadReturn

InitRead ==
    ReadInit /\ GroupInit /\ CacheIdle /\ ProcIdle /\ RunIdle /\ SplitIdle
      /\ ChunkedIdle /\ MergeIdle /\ QueryIdle /\ FlowIdle

SpecRead == InitRead /\ [][ReadNext]_vars

----------------------------------------------------------------------------
(* C30 *)

\* the files of the folder that were read successfully, in directory order
ReadSuccessfully ==
    SelectSeq(readFolder, LAMBDA f : f \notin Range(readErrors))

\* C30: readDocsTool returns the successfully read documents sorted by
\* filename whatever the order in which its concurrently issued file reads
\* complete, so the same folder contents always give the same document order:
\* the order returned is the one the folder gives when its reads complete in
\* directory order.
C30_OrderIndependentOfCompletion ==
    dpc = "returned"
      => /\ Range(readReturned[1]) = Range(ReadSuccessfully)
         /\ \A i, j \in DOMAIN readReturned[1] :
               i < j => localeCompare(readReturned[1][i], readReturned[1][j]) <= 0
         /\ readReturned[1] = SortByFilename(ReadSuccessfully)

----------------------------------------------------------------------------
(* C31 *)

\* the place of the result at which lessor, address and tenant have all been
\* found, or the length of the list when they never are
ResolvedAt(results) ==
    LET complete == { n \in DOMAIN results :
                        \A field \in {"lessor", "address", "tenant"} :
                            \E i \in 1..n : Found(results[i][field]) }
    IN  IF complete = {} THEN Len(results)
        ELSE CHOOSE n \in complete : \A k \in complete : n <= k

\* the first truthy baseReference of the list, or none
FirstReference(results) ==
    LET having == { i \in DOMAIN results :
                      results[i].baseReference \notin {<< >>, <<S_empty>>} }
    IN  IF having = {} THEN << >>
        ELSE results[CHOOSE i \in having : \A k \in having : i <= k].baseReference

\* C31: mergeExtractionResults returns as baseReference the first truthy
\* baseReference among the results up to and including the result at which
\* lessor, address and tenant all become resolved; later results are never
\* consulted, so baseReference stays unset even when a later result carries
\* one.
C31_ReferenceFromConsultedResults ==
    mergeReturned # << >>
      => mergeReturned[1].baseReference
           = FirstReference(Prefix(mergeResults, ResolvedAt(mergeResults)))

\* a list was merged in which the second result completes the three fields,
\* neither of the first two carries a base reference and the third does
C31_Witness ==
    /\ mergeReturned # << >>
    /\ Len(mergeResults) = 3
    /\ ResolvedAt(mergeResults) = 2
    /\ mergeResults[1].baseReference = << >>
    /\ mergeResults[2].baseReference = << >>
    /\ mergeResults[3].baseReference = <<S_ref>>
    /\ mergeReturned[1].baseReference = << >>

----------------------------------------------------------------------------
(* utils/chunkedProcessor.ts: splitIntoChunks on windows whose search region *)
(* is long enough to hold break points of two kinds                          *)

\* maxChunkSize of these calls: the search region is a fifth of it
ScanChunkSize == 20

\* the longest content of these calls
MaxScanLen == 24

\* break points of one kind, and of two kinds in both orders
ScanClusters ==
    { << >>, <<"\n">>, <<".", " ">>, <<"\n", "\n">>, <<"\n", "\n", "\n">>,
      <<"\n", "\n", ".", " ">>, <<".", " ", "\n", "\n">>,
      <<"\n", "\n", "a", "\n">>, <<"\n", "a", "\n", "\n">>,
      <<".", " ", "\n">>, <<"\n", ".", " ">>, <<".", " ", "a", "\n">> }

ScanContents ==
    { c \in { Repeat("a", i) \o b \o Repeat("a", j) :
                i \in 0..MaxScanLen, j \in 0..MaxScanLen, b \in ScanClusters } :
        Len(c) <= MaxScanLen }

ScanConfigs ==
    [maxChunkSize : {ScanChunkSize}, overlapSize : {0, MaxOverlap}]

ScanInit ==
    /\ splitContent \in ScanContents
    /\ splitConfig \in ScanConfigs
    /\ splitPosition = 0
    /\ splitChunks = << >>
    /\ splitWindows = << >>
    /\ spc = "start"

InitScan == ScanInit /\ GroupInit /\ CacheIdle /\ ProcIdle /\ RunIdle /\ ChunkedIdle /\ MergeIdle /\ QueryIdle /\ ReadIdle /\ FlowIdle

SpecScan == InitScan /\ [][SplitNext]_vars

----------------------------------------------------------------------------
(* C32 *)

\* where the window that starts at position would end without a search
RawEnd(position) == Min(position + splitConfig.maxChunkSize, Len(splitContent))

\* the offsets of the trailing scan region of the window at which the pattern
\* occurs inside the region
BreaksInScan(position, pattern) ==
    LET searchLength == Min(200, splitConfig.maxChunkSize \div 5)
        searchStart == Max(RawEnd(position) - searchLength, position)
    IN  { k \in searchStart..(RawEnd(position) - Len(pattern)) :
            SubSeq(splitContent, k + 1, k + Len(pattern)) = pattern }

\* just after the last occurrence
AfterLast(places, pattern) ==
    (CHOOSE k \in places : \A other \in places : other <= k) + Len(pattern)

\* C32: every non-final chunk of splitIntoChunks ends just after the last
\* paragraph break (blank line) of the trailing scan region of its window if
\* there is one; otherwise just after the last sentence end ('. '); otherwise
\* just after the last newline; otherwise at the raw maxChunkSize cut.  A
\* lower-priority break is never used when a higher-priority one occurs in
\* the region, even if it lies later; the final chunk is never shortened.
C32_BreakPriority ==
    \A i \in DOMAIN splitWindows :
        \E position \in {splitWindows[i][1]}, endPosition \in {splitWindows[i][2]} :
           \E paragraphs \in {BreaksInScan(position, <<"\n", "\n">>)},
              sentences \in {BreaksInScan(position, <<".", " ">>)},
              newlines \in {BreaksInScan(position, <<"\n">>)} :
              IF RawEnd(position) = Len(splitContent)
                THEN endPosition = Len(splitContent)
              ELSE IF paragraphs # {}
                THEN endPosition = AfterLast(paragraphs, <<"\n", "\n">>)
              ELSE IF sentences # {}
                THEN endPosition = AfterLast(sentences, <<".", " ">>)
              ELSE IF newlines # {}
                THEN endPosition = AfterLast(newlines, <<"\n">>)
              ELSE endPosition = RawEnd(position)

\* a content was split whose first window has in its scan region a paragraph
\* break followed by a sentence end: the chunk ends after the paragraph break
C32_Witness ==
    /\ spc = "returned"
    /\ Len(splitWindows) >= 2
    /\ \E p \in BreaksInScan(0, <<"\n", "\n">>) :
         /\ \E s \in BreaksInScan(0, <<".", " ">>) : s > p
         /\ splitWindows[1] = <<0, p + 2>>
    /\ splitWindows[Len(splitWindows)][2] = Len(splitContent)

----------------------------------------------------------------------------
(* workflows/organizeDocuments.ts: the group-documents step                 *)
(*                                                                          *)
(* hierarchy is a dictionary of dictionaries of lease files; the function   *)
(* Object, reached through an inherited name, is the one groupDocuments     *)
(* reaches, and may hold what either of the two left on it.                 *)

\* a value stored by the step: a lease file, not a group of grouping.ts
IsLeaseFile(val) == "baseLease" \in DOMAIN val

\* The address level of one iteration of the step's loop on the object
\* hierarchy[matchedLessor]: [threw, addresses].  When leaseFile is an
\* inherited function or a group stored by groupDocuments, its baseLease is
\* undefined and its lists are undefined: every case of the switch ends in a
\* push on undefined, a TypeError.
HierarchyPlace(addresses, doc) ==
    LET address           == doc.extraction.address
        existingAddresses == ObjectKeys(addresses)
        matchedAddress    == MatchOrSelf(address, existingAddresses)
        created           == IF Truthy(addresses, matchedAddress) THEN addresses
                             ELSE PutOwn(addresses, matchedAddress, EmptyLeaseFile)
    IN  IF ~HasOwn(created, matchedAddress)
        THEN [threw |-> TRUE, addresses |-> created]
        ELSE IF ~IsLeaseFile(OwnValue(created, matchedAddress))
        THEN [threw |-> TRUE, addresses |-> created]
        ELSE [threw |-> FALSE,
              addresses |-> PutOwn(created, matchedAddress,
                                   Categorize(OwnValue(created, matchedAddress), doc))]

\* one iteration of `for (const doc of processedDocs)` on the state
\* st = [hierarchy, ungrouped, objectCtor, threw]
HierarchyStep(st, doc) ==
    LET lessor == doc.extraction.lessor
    IN  IF SkipsGrouping(doc)
        THEN [st EXCEPT !.ungrouped = Append(@, doc.id)]
        ELSE
          LET existingLessors == ObjectKeys(st.hierarchy)
              matchedLessor   == MatchOrSelf(lessor, existingLessors)
              created         == IF Truthy(st.hierarchy, matchedLessor) THEN st.hierarchy
                                 ELSE PutOwn(st.hierarchy, matchedLessor, << >>)
          IN  IF HasOwn(created, matchedLessor)
              THEN LET r == HierarchyPlace(OwnValue(created, matchedLessor), doc)
                   IN  [st EXCEPT !.hierarchy = PutOwn(created, matchedLessor, r.addresses),
                                  !.threw = r.threw]
              ELSE LET r == HierarchyPlace(st.objectCtor, doc)
                   IN  [st EXCEPT !.objectCtor = r.addresses, !.threw = r.threw]

RECURSIVE HierarchyFrom(_, _, _)
HierarchyFrom(st, docs, i) ==
    IF i > Len(docs) \/ st.threw THEN st
    ELSE HierarchyFrom(HierarchyStep(st, docs[i]), docs, i + 1)

\* (lf.baseLease ? 1 : 0) + the lengths of the four lists
LeaseFileCount(lf) ==
    (IF lf.baseLease # << >> /\ lf.baseLease[1] # "" THEN 1 ELSE 0)
      + Len(lf.amendments) + Len(lf.commencements) + Len(lf.deliveries) + Len(lf.others)

RECURSIVE SumLeaseFiles(_, _)
SumLeaseFiles(addresses, keys) ==
    IF keys = << >> THEN 0
    ELSE LeaseFileCount(OwnValue(addresses, Head(keys)))
           + SumLeaseFiles(addresses, Tail(keys))

\* the stats loops of the step
RECURSIVE CountHierarchy(_, _)
CountHierarchy(h, keys) ==
    IF keys = << >> THEN [groupedCount |-> 0, addressCount |-> 0]
    ELSE LET addresses == ObjectKeys(OwnValue(h, Head(keys)))
             rest      == CountHierarchy(h, Tail(keys))
         IN  [groupedCount |-> SumLeaseFiles(OwnValue(h, Head(keys)), addresses)
                                 + rest.groupedCount,
              addressCount |-> Len(addresses) + rest.addressCount]

\* the return statement of the step on the state st the loop left
StepResult(st, docs) ==
    [threw |-> st.threw,
     objectCtor |-> st.objectCtor,
     result |-> [hierarchy |-> st.hierarchy, ungrouped |-> st.ungrouped,
                 stats |-> The({ [totalDocuments     |-> Len(docs),
                                  groupedDocuments   |-> c.groupedCount,
                                  ungroupedDocuments |-> Len(st.ungrouped),
                                  lessors            |-> Len(ObjectKeys(st.hierarchy)),
                                  addresses          |-> c.addressCount]
                                 : c \in {CountHierarchy(st.hierarchy,
                                                         ObjectKeys(st.hierarchy))} })]]

\* groupDocumentsStep.execute on state.processedDocs, where ctor holds what
\* earlier calls left on the function Object
groupDocumentsStep(processedDocuments, ctor) ==
    The({ StepResult(st, processedDocuments)
          : st \in {HierarchyFrom([hierarchy |-> << >>, ungrouped |-> << >>,
                                   objectCtor |-> ctor, threw |-> FALSE],
                                  processedDocuments, 1)} })

\* utils/grouping.ts getSimplifiedOutput: the lease file of every group, the
\* ids of the ungrouped documents, the stats
getSimplifiedOutput(result) ==
    [hierarchy |->
        [i \in DOMAIN result.grouped |->
            [key |-> result.grouped[i].key,
             val |-> [j \in DOMAIN result.grouped[i].val |->
                        [key |-> result.grouped[i].val[j].key,
                         val |-> result.grouped[i].val[j].val.leaseFile]]]],
     ungrouped |-> [i \in DOMAIN result.ungrouped |-> result.ungrouped[i].id],
     stats |-> result.stats]

----------------------------------------------------------------------------
(* workflows/organizeDocuments.ts: organizeDocumentsWorkflow, step by step  *)
(*                                                                          *)
(* read-documents, then process-document repeated while the condition of    *)
(* dowhile holds, then group-documents.  A step that returns suspend(...)   *)
(* stops the run until it is resumed; the resumed run executes the same     *)
(* step again with the caller's resumeData and with the state the step set  *)
(* before suspending.  An execution started by dowhile has no resumeData.   *)

MaxFlowDocs == 3

\* what readDocsTool returns to read-documents: files of the folder in the
\* order of their names
FlowFolders ==
    {Listing(sel, [i \in DOMAIN Files |-> TextA]) :
        sel \in {x \in SUBSET DOMAIN Files : Cardinality(x) <= MaxFlowDocs}}

\* what classifyDocument and extractKeys say about one document
FlowFindings ==
    {[documentType |-> "lease", lessor |-> S_xy1234, address |-> S_12elm],
     [documentType |-> "amendment", lessor |-> S_xy1234, address |-> S_12elm],
     [documentType |-> "lease", lessor |-> S_constructor, address |-> S_12elm],
     [documentType |-> "lease", lessor |-> S_unknown, address |-> S_12elm]}

\* what an earlier call of groupDocuments or of the step, in the same
\* process, can have left on the function Object
FlowObjectCtors ==
    {<< >>,
     groupDocuments(<<MakeDoc(Files[1], [documentType |-> "lease",
                                         lessor |-> S_constructor,
                                         address |-> S_12elm])>>, << >>).objectCtor}

\* a step that forgets to move currentIndex forward
processNextDocumentStep_KeepsIndex(st, resume, answer) ==
    IF st.currentIndex >= st.totalDocuments
    THEN [state |-> st, result |-> "returned", called |-> << >>]
    ELSE IF resume # << >> /\ resume[1].continue = TRUE
    THEN [state |-> st, result |-> "returned", called |-> << >>]
    ELSE IF answer = << >>
    THEN [state |-> st, result |-> "threw", called |-> <<st.currentIndex>>]
    ELSE [state |-> [st EXCEPT !.processedDocs =
                        Append(@, MakeDoc(st.documents[st.currentIndex + 1], answer[1]))],
          result |-> IF st.currentIndex + 1 < st.totalDocuments
                     THEN "suspended" ELSE "returned",
          called |-> <<st.currentIndex>>]

\* processNextDocumentStep.execute({ state, setState, resumeData, suspend }):
\* the state it sets, how it ends ("returned", "suspended" or "threw") and the
\* place of the document it called classifyDocument and extractKeys for.
\* answer is << >> when one of the two calls rejects.
processNextDocumentStep(st, resume, answer) ==
    IF st.currentIndex >= st.totalDocuments
    THEN [state |-> st, result |-> "returned", called |-> << >>]
    ELSE IF resume # << >> /\ resume[1].continue = TRUE
    THEN [state |-> st, result |-> "returned", called |-> << >>]
    ELSE IF answer = << >>
    THEN [state |-> st, result |-> "threw", called |-> <<st.currentIndex>>]
    ELSE [state |-> [st EXCEPT !.currentIndex = st.currentIndex + 1,
                               !.processedDocs =
                        Append(@, MakeDoc(st.documents[st.currentIndex + 1], answer[1]))],
          result |-> IF st.currentIndex + 1 < st.totalDocuments
                     THEN "suspended" ELSE "returned",
          called |-> <<st.currentIndex>>]

\* where the run goes after an execution of process-document
AfterStep(result) ==
    CASE result = "threw" -> "failed"
      [] result = "suspended" -> "suspended"
      [] result = "returned" -> "condition"

FlowInit ==
    /\ FlowIdle
    /\ documents = << >>
    /\ grouped = << >>
    /\ ungrouped = << >>
    /\ objectCtor \in FlowObjectCtors
    /\ stats = << >>
    /\ gpc = "loop"

\* readDocumentsStep.execute: the documents are read and the state is set
FlowRead ==
    /\ wpc = "read"
    /\ \E folder \in FlowFolders :
         state' = <<[documents |-> folder, currentIndex |-> 0,
                     totalDocuments |-> Len(folder), processedDocs |-> << >>]>>
    /\ wpc' = "step"
    /\ UNCHANGED <<resumeData, flowCalls, output, gvars, cvars, pvars, rvars, svars,
                   kvars, mvars, qvars, dvars>>

\* an execution of process-document started by dowhile
FlowExecute ==
    /\ wpc = "step"
    /\ \E answer \in Answers(FlowFindings) :
         \E r \in {processNextDocumentStep(state[1], << >>, answer)} :
            /\ state' = <<r.state>>
            /\ flowCalls' = flowCalls \o r.called
            /\ wpc' = AfterStep(r.result)
    /\ resumeData' = << >>
    /\ UNCHANGED <<output, gvars, cvars, pvars, rvars, svars, kvars, mvars, qvars, dvars>>

\* run.resume({ step: 'process-document', resumeData: { continue } }): the
\* suspended step is executed again
FlowResume ==
    /\ wpc = "suspended"
    /\ \E continue \in BOOLEAN, answer \in Answers(FlowFindings) :
         \E r \in {processNextDocumentStep(state[1], <<[continue |-> continue]>>,
                                           answer)} :
            /\ state' = <<r.state>>
            /\ flowCalls' = flowCalls \o r.called
            /\ wpc' = AfterStep(r.result)
            /\ resumeData' = <<[continue |-> continue]>>
    /\ UNCHANGED <<output, gvars, cvars, pvars, rvars, svars, kvars, mvars, qvars, dvars>>

\* the condition of dowhile: state.currentIndex < state.totalDocuments
FlowCondition ==
    /\ wpc = "condition"
    /\ wpc' = IF state[1].currentIndex < state[1].totalDocuments THEN "step" ELSE "group"
    /\ UNCHANGED <<state, resumeData, flowCalls, output, gvars, cvars, pvars, rvars,
                   svars, kvars, mvars, qvars, dvars>>

\* groupDocumentsStep.execute
FlowGroup ==
    /\ wpc = "group"
    /\ \E g \in {groupDocumentsStep(state[1].processedDocs, objectCtor)} :
         /\ objectCtor' = g.objectCtor
         /\ IF g.threw
            THEN wpc' = "failed" /\ UNCHANGED output
            ELSE wpc' = "success" /\ output' = <<g.result>>
    /\ UNCHANGED <<state, resumeData, flowCalls, documents, grouped, ungrouped, stats,
                   gpc, cvars, pvars, rvars, svars, kvars, mvars, qvars, dvars>>

FlowNext == FlowRead \/ FlowExecute \/ FlowResume \/ FlowCondition \/ FlowGroup

InitFlow ==
    FlowInit /\ CacheIdle /\ ProcIdle /\ RunIdle /\ SplitIdle /\ ChunkedIdle
      /\ MergeIdle /\ QueryIdle /\ ReadIdle

SpecFlow == InitFlow /\ [][FlowNext]_vars

----------------------------------------------------------------------------
(* C33 *)

\* C33: once process-document has suspended after a document, the next
\* document is classified and extracted only after the run has been resumed
\* with continue = true; a resume with continue = false does not cause any
\* further document to be processed.
C33_OnlyContinueTrueProcesses ==
    [][(wpc = "suspended" /\ resumeData' = <<[continue |-> FALSE]>>)
          => (flowCalls' = flowCalls /\ state' = state)]_vars

----------------------------------------------------------------------------
(* C37 *)

\* classifyDocument and extractKeys were called once for each of the first n
\* documents, in order, and for no other
CalledOnceForFirst(n) ==
    /\ Len(flowCalls) = n
    /\ \A k \in 1..n : flowCalls[k] = k - 1

\* C37: in every reachable state of the workflow, after any number of
\* suspend/resume cycles, processedDocs has exactly currentIndex entries,
\* which are the results for documents[0 .. currentIndex-1] in that order, and
\* currentIndex never exceeds totalDocuments; every document is classified
\* and extracted exactly once (a document whose calls rejected ends the run),
\* and the grouping step runs only when currentIndex = totalDocuments, the
\* empty batch included.
C37_StateTracksProgress ==
    state # << >> =>
      \E st \in {state[1]} :
        /\ st.totalDocuments = Len(st.documents)
        /\ st.currentIndex \in 0..st.totalDocuments
        /\ Len(st.processedDocs) = st.currentIndex
        /\ \A k \in 1..Len(st.processedDocs) :
              /\ k <= Len(st.documents)
              /\ st.processedDocs[k].id = st.documents[k].id
              /\ st.processedDocs[k].filename = st.documents[k].filename
        /\ IF wpc = "failed"
           THEN CalledOnceForFirst(st.currentIndex)
                  \/ CalledOnceForFirst(st.currentIndex + 1)
           ELSE CalledOnceForFirst(st.currentIndex)
        /\ (wpc \in {"group", "success"} \/ output # << >>)
              => st.currentIndex = st.totalDocuments

\* a run over three documents was suspended twice, resumed once with
\* continue = false, and ended with the grouping of the three
C37_Witness ==
    /\ wpc = "success"
    /\ output # << >>
    /\ state[1].totalDocuments = MaxFlowDocs
    /\ state[1].currentIndex = MaxFlowDocs
    /\ resumeData = <<[continue |-> FALSE]>>
    /\ output[1].stats.totalDocuments = MaxFlowDocs

----------------------------------------------------------------------------
(* C39 *)

\* what the step and groupDocuments each give for the processed documents of
\* the run, called in the state the function Object is in
StepAndUtility ==
    [step |-> groupDocumentsStep(state[1].processedDocs, objectCtor),
     utility |-> groupDocuments(state[1].processedDocs, objectCtor)]

\* C39: for every list of processed documents, the workflow's group-documents
\* step and the utility groupDocuments produce the same result: the same
\* lessor and address keys in the same order, the same bundle (baseLease and
\* the four id lists) under each, the same ungrouped ids in the same order,
\* and the same five stats values.
C39_StepMatchesGroupDocuments ==
    state # << >> =>
      \E both \in {StepAndUtility} :
        /\ both.step.threw = both.utility.threw
        /\ ~both.step.threw
             => both.step.result = getSimplifiedOutput(both.utility.result)

----------------------------------------------------------------------------
(* C34 *)

\* the entries a load of the cache file would give now
PersistedEntries == loadCache(cacheFile).entries

\* C34: for a DocumentCache constructed from a missing file or from a
\* successfully loaded envelope of the current version, after any sequence of
\* set, clear and save operations (saves whose write fails included),
\* whenever the dirty flag is false the entries persisted in the file equal
\* the in-memory entries.
C34_CleanMeansPersisted ==
    (LoadedCacheFile \in {FileMissing, FileValid} /\ ~dirty)
      => PersistedEntries = cache[1].entries

----------------------------------------------------------------------------
(* C35 *)

\* no two distinct keys of the object are similar to each other
PairwiseDissimilar(obj) ==
    \A k1 \in OwnKeys(obj), k2 \in OwnKeys(obj) : k1 # k2 => ~Similar(k1, k2)

\* C35: in every result of groupDocuments no two distinct lessor keys have
\* similarity >= 0.8 to each other, and under any one lessor no two distinct
\* address keys have similarity >= 0.8 to each other.
C35_KeysPairwiseDissimilar ==
    gpc = "returned"
      => /\ PairwiseDissimilar(grouped)
         /\ \A i \in DOMAIN grouped : PairwiseDissimilar(grouped[i].val)

----------------------------------------------------------------------------
(* C36 *)

\* the documents taken so far that classifyDocument or extractKeys was
\* called for (a document whose calls reject ends the run)
CalledFor == {k \in DOMAIN outcomes : outcomes[k] = "processed"}

\* what a step of organizeDocuments does to the calls and the delays: calls
\* are made only while no delay is awaited and after one completed delay for
\* each earlier document that calls were made for, and a delay is completed
\* only right after such a document
DelayStep ==
    /\ (classifyCalls' # classifyCalls \/ extractCalls' # extractCalls)
         => /\ rpc = "loop"
            /\ sleeps = Cardinality(CalledFor)
    /\ sleeps' # sleeps
         => /\ outcomes # << >>
            /\ outcomes[Len(outcomes)] = "processed"
            /\ sleeps' = Cardinality(CalledFor)

\* C36: in any organizeDocuments run, between the external classify/extract
\* calls made for one document and those made for any later document at
\* least one cooldown delay elapses, whatever the pattern of cache hits and
\* misses in the batch.
C36_DelayBetweenCalls == [][DelayStep]_vars

\* a run of three documents returned in which calls were made for the first
\* and the third and the second came from the cache: one delay lies between
C36_Witness ==
    /\ rpc = "returned"
    /\ outcomes = <<"processed", "cached", "processed">>
    /\ sleeps = 1
    /\ classifyCalls # << >>

----------------------------------------------------------------------------
(* C38 *)

\* the states of the file from which no snapshot can be loaded: removed,
\* unreadable, not JSON, or the JSON text null
UnloadableFiles ==
    {[kind |-> "missing"], [kind |-> "unreadable"], [kind |-> "unparsable"],
     [kind |-> "null"]}

\* what a step does when it is a reload, and what a read after it answers
ReloadStep ==
    \* a reload that finds no loadable file throws and changes nothing
    /\ (lastOp' # << >> /\ lastOp'[1].op = "reload" /\ queryOps' # queryOps)
         => /\ groupingFile' = groupingFile
            /\ IF groupingFile \in UnloadableFiles
               THEN lastOp'[1].threw /\ session' = session /\ loadedFile' = loadedFile
               ELSE ~lastOp'[1].threw /\ session' = <<groupingFile.value>>
    \* so it is for every way the file can be lost
    /\ session # << >>
         => \A file \in UnloadableFiles :
               LeaseQueryReload(session, file) = [threw |-> TRUE, result |-> session]
    \* a read, whatever came before, answers from the snapshot the session
    \* held before the step, and leaves it
    /\ (lastOp' # << >> /\ lastOp'[1].op \in ReadOps)
         => /\ session' = session
            /\ \E r \in {Lookup([op |-> lastOp'[1].op, args |-> lastOp'[1].args],
                                session[1], objectCtor)} :
                  /\ lastOp'[1].threw = r.threw
                  /\ lastOp'[1].returned = r.returned

\* C38: if LeaseQuery.reload() cannot load a snapshot (the file has been
\* removed or is unparsable) it raises an error and the session's in-memory
\* snapshot is left unchanged, so all later reads still answer from the
\* previously loaded snapshot.
C38_FailedReloadKeepsSnapshot == [][ReloadStep]_vars

\* a session was constructed, the file was left unparsable by a write that
\* was cut short, and reload() threw with the session still holding what it
\* had loaded
C38_Witness ==
    /\ session # << >>
    /\ loadedFile # << >>
    /\ session = loadGroupingResult(loadedFile[1])
    /\ groupingFile.kind = "unparsable"
    /\ lastOp # << >>
    /\ lastOp[1].op = "reload"
    /\ lastOp[1].threw

============================================================================
